---------------------------- MODULE Spec2Model ----------------------------
(***************************************************************************)
(* A model of bot.js: the PayNow/SGQR payload codec (tlv, crc16ccitt,      *)
(* buildMAI_PayNow, buildPayNowPayload), the transaction reference         *)
(* allocator (resetKeyNoon, companyPrefix, nextTxnId, buildReference) and  *)
(* the sale handlers that call them.                                       *)
(*                                                                         *)
(* Text is modelled by TLA+ strings (a JS string of 16-bit code units);    *)
(* where the code reads code units (charCodeAt) the string is turned into  *)
(* the sequence of its code units.                                         *)
(***************************************************************************)
EXTENDS Integers, Sequences, FiniteSets, TLC

VARIABLES
    now,        \* the local wall clock read by new Date(): [y, m, d, h]
    ticks,      \* how often the clock has advanced (bounded)
    counters,   \* DB.counters: "date" -> reset key, company key -> counter
    issued,     \* history: id -> how often nextTxnId returned it under the stored key
    returned,   \* history: company key -> the ids returned since the last reset
    lastCall,   \* history: the last nextTxnId call
    lastReset,  \* history: the last reset of the counters inside nextTxnId
    calls,      \* how many nextTxnId calls were made (bounded)
    args,       \* the arguments of a call of a pure function
    result,     \* what that call returned
    users,      \* DB.users: uid -> [nickname, company]
    stepState,  \* stepState: uid -> the session object stored there (0: none)
    sessions,   \* the session objects ever created, by identity
    tasks,      \* the handler invocations and timer callbacks in flight
    started,    \* how many updates were delivered (bounded)
    sales       \* DB.sales

vars == <<now, ticks, counters, issued, returned, lastCall, lastReset, calls,
          args, result, users, stepState, sessions, tasks, started, sales>>

allocVars == <<now, ticks, counters, issued, returned, lastCall, lastReset, calls>>
codecVars == <<args, result>>
botVars == <<users, stepState, sessions, tasks, started, sales>>

-----------------------------------------------------------------------------
(* Bounds of the model *)

MaxCalls == 2
MaxTicks == 2
MaxUpdates == 2
MaxInFlight == 2

-----------------------------------------------------------------------------
(* JS string primitives *)

Min(a, b) == IF a < b THEN a ELSE b
Max(a, b) == IF a > b THEN a ELSE b

\* s.charAt(i), 0-based; "" past the end
charAt(s, i) == IF i < Len(s) THEN SubSeq(s, i + 1, i + 1) ELSE ""

\* s.slice(a, b) for 0 <= a <= b
slice(s, a, b) == SubSeq(s, a + 1, Min(b, Len(s)))

\* s.slice(a)
sliceFrom(s, a) == SubSeq(s, a + 1, Len(s))

\* s.startsWith(p)
startsWith(s, p) == Len(p) <= Len(s) /\ SubSeq(s, 1, Len(p)) = p

UpperAZ == "ABCDEFGHIJKLMNOPQRSTUVWXYZ"
LowerAZ == "abcdefghijklmnopqrstuvwxyz"
Digits  == "0123456789"

\* position of the one-character string ch in alphabet, 0 when absent
RECURSIVE IndexFrom(_, _, _)
IndexFrom(ch, alphabet, i) ==
    IF i > Len(alphabet) THEN 0
    ELSE IF SubSeq(alphabet, i, i) = ch THEN i
    ELSE IndexFrom(ch, alphabet, i + 1)

IndexIn(ch, alphabet) == IndexFrom(ch, alphabet, 1)

\* ch.toLowerCase() of one character (ASCII letters)
lowerChar(ch) ==
    CASE ch = "A" -> "a"
      [] ch = "B" -> "b"
      [] ch = "C" -> "c"
      [] ch = "D" -> "d"
      [] ch = "E" -> "e"
      [] ch = "F" -> "f"
      [] ch = "G" -> "g"
      [] ch = "H" -> "h"
      [] ch = "I" -> "i"
      [] ch = "J" -> "j"
      [] ch = "K" -> "k"
      [] ch = "L" -> "l"
      [] ch = "M" -> "m"
      [] ch = "N" -> "n"
      [] ch = "O" -> "o"
      [] ch = "P" -> "p"
      [] ch = "Q" -> "q"
      [] ch = "R" -> "r"
      [] ch = "S" -> "s"
      [] ch = "T" -> "t"
      [] ch = "U" -> "u"
      [] ch = "V" -> "v"
      [] ch = "W" -> "w"
      [] ch = "X" -> "x"
      [] ch = "Y" -> "y"
      [] ch = "Z" -> "z"
      [] OTHER -> ch

\* ch.toUpperCase() of one character (ASCII letters)
upperChar(ch) ==
    CASE ch = "a" -> "A"
      [] ch = "b" -> "B"
      [] ch = "c" -> "C"
      [] ch = "d" -> "D"
      [] ch = "e" -> "E"
      [] ch = "f" -> "F"
      [] ch = "g" -> "G"
      [] ch = "h" -> "H"
      [] ch = "i" -> "I"
      [] ch = "j" -> "J"
      [] ch = "k" -> "K"
      [] ch = "l" -> "L"
      [] ch = "m" -> "M"
      [] ch = "n" -> "N"
      [] ch = "o" -> "O"
      [] ch = "p" -> "P"
      [] ch = "q" -> "Q"
      [] ch = "r" -> "R"
      [] ch = "s" -> "S"
      [] ch = "t" -> "T"
      [] ch = "u" -> "U"
      [] ch = "v" -> "V"
      [] ch = "w" -> "W"
      [] ch = "x" -> "X"
      [] ch = "y" -> "Y"
      [] ch = "z" -> "Z"
      [] OTHER -> ch

\* the value of a decimal digit, -1 for any other character
digitValue(ch) ==
    CASE ch = "0" -> 0
      [] ch = "1" -> 1
      [] ch = "2" -> 2
      [] ch = "3" -> 3
      [] ch = "4" -> 4
      [] ch = "5" -> 5
      [] ch = "6" -> 6
      [] ch = "7" -> 7
      [] ch = "8" -> 8
      [] ch = "9" -> 9
      [] OTHER -> -1

RECURSIVE toLowerCase(_)
toLowerCase(s) ==
    IF s = "" THEN "" ELSE lowerChar(charAt(s, 0)) \o toLowerCase(sliceFrom(s, 1))

RECURSIVE toUpperCase(_)
toUpperCase(s) ==
    IF s = "" THEN "" ELSE upperChar(charAt(s, 0)) \o toUpperCase(sliceFrom(s, 1))

\* s.padStart(n, ch) with a one-character filler
RECURSIVE padStart(_, _, _)
padStart(s, n, ch) == IF Len(s) >= n THEN s ELSE padStart(ch \o s, n, ch)

\* the decimal digit of d in 0..9
digitChar(d) ==
    CASE d = 0 -> "0" [] d = 1 -> "1" [] d = 2 -> "2" [] d = 3 -> "3" [] d = 4 -> "4"
      [] d = 5 -> "5" [] d = 6 -> "6" [] d = 7 -> "7" [] d = 8 -> "8" [] d = 9 -> "9"

\* String(n) / n.toString() of a non-negative integer
RECURSIVE String(_)
String(n) ==
    IF n < 10 THEN digitChar(n) ELSE String(n \div 10) \o digitChar(n % 10)

\* the number a string of decimal digits denotes
RECURSIVE DecimalValue(_)
DecimalValue(s) ==
    IF s = "" THEN 0
    ELSE 10 * DecimalValue(SubSeq(s, 1, Len(s) - 1))
         + digitValue(SubSeq(s, Len(s), Len(s)))

isDigit(ch) == digitValue(ch) >= 0

-----------------------------------------------------------------------------
(* The local calendar behind new Date(), getHours, getDate, setDate *)

IsLeap(y) == (y % 4 = 0 /\ y % 100 # 0) \/ y % 400 = 0

DaysInMonth(y, m) ==
    IF m = 2 THEN (IF IsLeap(y) THEN 29 ELSE 28)
    ELSE IF m \in {4, 6, 9, 11} THEN 30 ELSE 31

\* d.setDate(n) for n in 0..DaysInMonth: day 0 is the last day of the month before
setDate(d, n) ==
    IF n >= 1 THEN [d EXCEPT !.d = n]
    ELSE IF d.m = 1 THEN [d EXCEPT !.y = d.y - 1, !.m = 12, !.d = 31]
    ELSE [d EXCEPT !.m = d.m - 1, !.d = DaysInMonth(d.y, d.m - 1)]


\* the calendar day after d (the clock moving past midnight)
NextDay(d) ==
    IF d.d < DaysInMonth(d.y, d.m) THEN [d EXCEPT !.d = d.d + 1]
    ELSE IF d.m < 12 THEN [d EXCEPT !.m = d.m + 1, !.d = 1]
    ELSE [d EXCEPT !.y = d.y + 1, !.m = 1, !.d = 1]

\* the instants the model's clock visits: 00h, 11h, 12h and 23h of each day
NextInstant(t) ==
    IF t.h = 0 THEN [t EXCEPT !.h = 11]
    ELSE IF t.h = 11 THEN [t EXCEPT !.h = 12]
    ELSE IF t.h = 12 THEN [t EXCEPT !.h = 23]
    ELSE [NextDay(t) EXCEPT !.h = 0]

\* where the clock may stand when the process starts: the night after a
\* leap day, the morning after a common-year month end, and the afternoon
\* before a year end
StartInstants ==
    { [y |-> 2024, m |-> 3,  d |-> 1,  h |-> 0],
      [y |-> 2025, m |-> 3,  d |-> 1,  h |-> 11],
      [y |-> 2023, m |-> 12, d |-> 31, h |-> 12] }

\* the start instant of the runs that begin just before a counter wraps
WrapStart == [y |-> 2025, m |-> 3, d |-> 1, h |-> 11]

-----------------------------------------------------------------------------
(* TxnID helpers (noon boundary reset) *)

NULL == "null"

WrapAt == 999

\* resetKeyNoon with the hour test dropped: the key of the calendar day
resetKeyNoon_calendarDay(t) ==
    String(t.y) \o "-" \o padStart(String(t.m), 2, "0") \o "-"
        \o padStart(String(t.d), 2, "0") \o "-noon"

\* the Date object resetKeyNoon formats: today, or yesterday before noon
noonDate(t) == IF t.h < 12 THEN setDate(t, t.d - 1) ELSE t

resetKeyNoon(t) ==
    LET d  == noonDate(t)
        mm == padStart(String(d.m), 2, "0")
        dd == padStart(String(d.d), 2, "0")
    IN  String(d.y) \o "-" \o mm \o "-" \o dd \o "-noon"

companyPrefix(company) ==
    LET c == toLowerCase(company) IN
    CASE c = "lunar" -> "L"
      [] c = "wave"  -> "W"
      [] c = "ion"   -> "I"
      [] c = "101"   -> "1"
      [] OTHER       -> "X"

\* the object literal { date:keyDate, Lunar:0, Wave:0, Ion:0, '101':0 }
freshCounters(keyDate) ==
    ("date" :> keyDate) @@ ("Lunar" :> 0) @@ ("Wave" :> 0) @@ ("Ion" :> 0)
        @@ ("101" :> 0)

\* a reset that adopts the key and forgets to zero the counters
resetCounters_keepCounts(c, keyDate) == [c EXCEPT !["date"] = keyDate]

\* if (DB.counters.date!==keyDate) DB.counters = {...}
resetCounters(c, keyDate) ==
    IF c["date"] # keyDate THEN freshCounters(keyDate) ELSE c

\* a bucket named by the company as it was passed, letter case kept
counterKey_caseKept(company) == company

\* the counter bucket of a company
counterKey(company) ==
    IF company = "101" THEN "101"
    ELSE toUpperCase(charAt(company, 0)) \o toLowerCase(sliceFrom(company, 1))

\* if (!(key in DB.counters)) DB.counters[key]=0
withKey(c, key) == IF key \in DOMAIN c THEN c ELSE c @@ (key :> 0)

\* an increment that wraps through 0
IncCounter_throughZero(v) == (v + 1) % (WrapAt + 1)

\* an increment that is lost
IncCounter_lost(v) == IF v >= 1 THEN v ELSE v + 1

\* (DB.counters[key]%999)+1
IncCounter(v) == (v % WrapAt) + 1

\* an id whose counter is not padded
formatTxnId_unpadded(company, n) == companyPrefix(company) \o String(n)

\* `${companyPrefix(company)}${String(n).padStart(3,'0')}`
formatTxnId(company, n) == companyPrefix(company) \o padStart(String(n), 3, "0")

\* the id of the next counter, with the incremented counter not stored
nextTxnId_notStored(c, company, t) ==
    LET keyDate == resetKeyNoon(t)
        c1  == resetCounters(c, keyDate)
        key == counterKey(company)
        c2  == withKey(c1, key)
    IN  [counters |-> c2, id |-> formatTxnId(company, IncCounter(c2[key]))]

\* nextTxnId(company) on DB.counters = c with the clock at t: the counters it
\* leaves and the id it returns
nextTxnId(c, company, t) ==
    LET keyDate == resetKeyNoon(t)
        c1  == resetCounters(c, keyDate)
        key == counterKey(company)
        c2  == withKey(c1, key)
        c3  == [c2 EXCEPT ![key] = IncCounter(c2[key])]
    IN  [counters |-> c3, id |-> formatTxnId(company, c3[key])]

\* function buildReference(txnId, operator, name)
buildReference_unclipped(txnId, operator, name) ==
    txnId \o " - " \o operator \o " - " \o name

\* function buildReference(txnId, operator, name)
buildReference(txnId, operator, name) ==
    slice(txnId \o " - " \o operator \o " - " \o name, 0, 25)

-----------------------------------------------------------------------------
(* SGQR helpers *)

\* ch.charCodeAt(0) of one printable ASCII character (quote, backslash
\* and backquote are left out of the alphabet of the model)
charCode(ch) ==
    CASE ch = " " -> 32 [] ch = "!" -> 33 [] ch = "#" -> 35 [] ch = "$" -> 36
      [] ch = "%" -> 37 [] ch = "&" -> 38 [] ch = "'" -> 39 [] ch = "(" -> 40
      [] ch = ")" -> 41 [] ch = "*" -> 42 [] ch = "+" -> 43 [] ch = "," -> 44
      [] ch = "-" -> 45 [] ch = "." -> 46 [] ch = "/" -> 47 [] ch = "0" -> 48
      [] ch = "1" -> 49 [] ch = "2" -> 50 [] ch = "3" -> 51 [] ch = "4" -> 52
      [] ch = "5" -> 53 [] ch = "6" -> 54 [] ch = "7" -> 55 [] ch = "8" -> 56
      [] ch = "9" -> 57 [] ch = ":" -> 58 [] ch = ";" -> 59 [] ch = "<" -> 60
      [] ch = "=" -> 61 [] ch = ">" -> 62 [] ch = "?" -> 63 [] ch = "@" -> 64
      [] ch = "A" -> 65 [] ch = "B" -> 66 [] ch = "C" -> 67 [] ch = "D" -> 68
      [] ch = "E" -> 69 [] ch = "F" -> 70 [] ch = "G" -> 71 [] ch = "H" -> 72
      [] ch = "I" -> 73 [] ch = "J" -> 74 [] ch = "K" -> 75 [] ch = "L" -> 76
      [] ch = "M" -> 77 [] ch = "N" -> 78 [] ch = "O" -> 79 [] ch = "P" -> 80
      [] ch = "Q" -> 81 [] ch = "R" -> 82 [] ch = "S" -> 83 [] ch = "T" -> 84
      [] ch = "U" -> 85 [] ch = "V" -> 86 [] ch = "W" -> 87 [] ch = "X" -> 88
      [] ch = "Y" -> 89 [] ch = "Z" -> 90 [] ch = "[" -> 91 [] ch = "]" -> 93
      [] ch = "^" -> 94 [] ch = "_" -> 95 [] ch = "a" -> 97
      [] ch = "b" -> 98 [] ch = "c" -> 99 [] ch = "d" -> 100
      [] ch = "e" -> 101 [] ch = "f" -> 102 [] ch = "g" -> 103
      [] ch = "h" -> 104 [] ch = "i" -> 105 [] ch = "j" -> 106
      [] ch = "k" -> 107 [] ch = "l" -> 108 [] ch = "m" -> 109
      [] ch = "n" -> 110 [] ch = "o" -> 111 [] ch = "p" -> 112
      [] ch = "q" -> 113 [] ch = "r" -> 114 [] ch = "s" -> 115
      [] ch = "t" -> 116 [] ch = "u" -> 117 [] ch = "v" -> 118
      [] ch = "w" -> 119 [] ch = "x" -> 120 [] ch = "y" -> 121
      [] ch = "z" -> 122 [] ch = "{" -> 123 [] ch = "|" -> 124
      [] ch = "}" -> 125 [] ch = "~" -> 126

\* the code units str.charCodeAt(0), ..., str.charCodeAt(str.length-1)
CharCodes(str) == [i \in 1..Len(str) |-> charCode(SubSeq(str, i, i))]

\* a ^ b on non-negative integers
RECURSIVE Xor(_, _)
Xor(a, b) ==
    IF a = 0 THEN b
    ELSE IF b = 0 THEN a
    ELSE ((a + b) % 2) + 2 * Xor(a \div 2, b \div 2)

\* one digit of n.toString(16)
hexChar(d) ==
    CASE d < 10 -> digitChar(d)
      [] d = 10 -> "a" [] d = 11 -> "b" [] d = 12 -> "c"
      [] d = 13 -> "d" [] d = 14 -> "e" [] d = 15 -> "f"

\* n.toString(16)
RECURSIVE toString16(_)
toString16(n) ==
    IF n < 16 THEN hexChar(n) ELSE toString16(n \div 16) \o hexChar(n % 16)

\* tlv writing the length without the zero padding
tlv_unpadded(id, value) == id \o String(Len(value)) \o value

\* function tlv(id, value)
tlv(id, value) == id \o padStart(String(Len(value)), 2, "0") \o value

\* crc=(crc&0x8000)?((crc<<1)^0x1021):(crc<<1); crc&=0xffff;
crcShift(crc) ==
    (IF (crc \div 32768) % 2 = 1 THEN Xor(crc * 2, 4129) ELSE crc * 2) % 65536

\* the inner loop: b = 0..7
crcShift8(crc) ==
    crcShift(crcShift(crcShift(crcShift(crcShift(crcShift(crcShift(crcShift(crc))))))))

\* one iteration of the outer loop: crc^=str.charCodeAt(i)<<8; then 8 shifts
crcUnit(crc, unit) == crcShift8(Xor(crc, unit * 256))

\* iterations lo..hi of the outer loop, from register crc. The range is run
\* as its first half followed by its second half, which is the same sequence
\* of iterations and keeps the depth of evaluation logarithmic
RECURSIVE crcLoop(_, _, _, _)
crcLoop(crc, units, lo, hi) ==
    IF lo > hi THEN crc
    ELSE IF lo = hi THEN crcUnit(crc, units[lo])
    ELSE LET mid  == (lo + hi) \div 2
             half == crcLoop(crc, units, lo, mid)
         IN  CASE half \in 0..65535 -> crcLoop(half, units, mid + 1, hi)

\* the register rendered without padStart
crcHex_unpadded(crc) == toUpperCase(toString16(crc))

\* crc.toString(16).toUpperCase().padStart(4,'0')
crcHex(crc) == padStart(toUpperCase(toString16(crc)), 4, "0")

\* the same loop from a zero register
crc16ccitt_zeroInit(units) == crcHex(crcLoop(0, units, 1, Len(units)))

\* function crc16ccitt(str), on the code units of str
crc16ccitt(units) == crcHex(crcLoop(65535, units, 1, Len(units)))

Ok(v) == [ok |-> TRUE, value |-> v, error |-> ""]
Throw(msg) == [ok |-> FALSE, value |-> "", error |-> msg]

\* String(mobile||'').replace(/[^\d]/g,'')
RECURSIVE digitsOnly(_)
digitsOnly(s) ==
    IF s = "" THEN ""
    ELSE (IF isDigit(charAt(s, 0)) THEN charAt(s, 0) ELSE "") \o digitsOnly(sliceFrom(s, 1))

\* the nested conditional that reduces the digits to a local number, "" for null
local8Of(digits) ==
    IF Len(digits) = 8 THEN digits
    ELSE IF startsWith(digits, "65") /\ Len(digits) = 10 THEN sliceFrom(digits, 2)
    ELSE IF startsWith(digits, "065") /\ Len(digits) = 11 THEN sliceFrom(digits, 3)
    ELSE IF startsWith(digits, "0065") /\ Len(digits) = 12 THEN sliceFrom(digits, 4)
    ELSE ""

\* the test /^\d{8}$/: any first digit
isLocalMobile_anyFirstDigit(s) ==
    /\ Len(s) = 8
    /\ \A i \in 0..7 : isDigit(charAt(s, i))

\* /^[89]\d{7}$/.test(s)
isLocalMobile(s) ==
    /\ Len(s) = 8
    /\ charAt(s, 0) \in {"8", "9"}
    /\ \A i \in 1..7 : isDigit(charAt(s, i))

\* the builder without its check that a UEN is configured
buildMAI_PayNow_uenUnchecked(a) ==
    LET local8 == local8Of(digitsOnly(a.mobile))
        tail   == tlv("03", IF a.editable THEN "1" ELSE "0")
                      \o (IF a.expiry # "" THEN tlv("04", a.expiry) ELSE "")
    IN  IF a.mode = "mobile"
        THEN IF local8 = "" \/ ~isLocalMobile(local8)
             THEN Throw("Invalid PAYNOW_MOBILE")
             ELSE Ok(tlv("26", tlv("00", "SG.PAYNOW") \o tlv("01", "0") \o tlv("02", local8)
                                  \o tail))
        ELSE Ok(tlv("26", tlv("00", "SG.PAYNOW") \o tlv("01", "2") \o tlv("02", a.uen) \o tail))

\* the builder pushing the expiry although none is given
buildMAI_PayNow_alwaysExpiry(a) ==
    LET local8 == local8Of(digitsOnly(a.mobile))
        tail   == tlv("03", IF a.editable THEN "1" ELSE "0") \o tlv("04", a.expiry)
    IN  IF a.mode = "mobile"
        THEN IF local8 = "" \/ ~isLocalMobile(local8)
             THEN Throw("Invalid PAYNOW_MOBILE")
             ELSE Ok(tlv("26", tlv("00", "SG.PAYNOW") \o tlv("01", "0") \o tlv("02", local8)
                                  \o tail))
        ELSE IF a.uen = ""
             THEN Throw("PAYNOW_UEN required for UEN mode")
             ELSE Ok(tlv("26", tlv("00", "SG.PAYNOW") \o tlv("01", "2") \o tlv("02", a.uen)
                                  \o tail))

\* function buildMAI_PayNow({ mode, uen, mobile, editable=false, expiry })
buildMAI_PayNow(a) ==
    LET gui          == tlv("00", "SG.PAYNOW")
        local8       == local8Of(digitsOnly(a.mobile))
        editableFlag == tlv("03", IF a.editable THEN "1" ELSE "0")
        tail         == editableFlag \o (IF a.expiry # "" THEN tlv("04", a.expiry) ELSE "")
    IN  IF a.mode = "mobile"
        THEN IF local8 = "" \/ ~isLocalMobile(local8)
             THEN Throw("Invalid PAYNOW_MOBILE")
             ELSE Ok(tlv("26", gui \o tlv("01", "0") \o tlv("02", local8) \o tail))
        ELSE IF a.uen = ""
             THEN Throw("PAYNOW_UEN required for UEN mode")
             ELSE Ok(tlv("26", gui \o tlv("01", "2") \o tlv("02", a.uen) \o tail))

\* the test amount >= 0
isPositive_orZero(amount) == ~amount.nan /\ (amount.e21 > 0 \/ amount.cents >= 0)

\* amount > 0 for a Number: NaN, or below 10^21 and held as cents, or from
\* 10^21 and held in e21 as hundredths of 10^21 (cents is 0 then)
isPositive(amount) == ~amount.nan /\ (amount.e21 > 0 \/ amount.cents > 0)

\* Number::toString of a number of three significant digits from 10^21, given
\* in hundredths of 10^21: "1e+21", "1.1e+21", "1.03e+21"
exponentText(k) ==
    digitChar(k \div 100)
        \o (IF k % 100 = 0 THEN ""
            ELSE "." \o digitChar((k \div 10) % 10)
                     \o (IF k % 10 = 0 THEN "" ELSE digitChar(k % 10)))
        \o "e+21"

\* Number(amount).toFixed(2) of a non-negative amount: two decimals below
\* 10^21, and the exponent form of Number::toString from 10^21
toFixed2(amount) ==
    IF amount.e21 > 0 THEN exponentText(amount.e21)
    ELSE String(amount.cents \div 100) \o "." \o padStart(String(amount.cents % 100), 2, "0")

\* the assembler with merchant-city written before merchant-name
buildPayNowPayload_cityFirst(a) ==
    LET id26 == buildMAI_PayNow(a) IN
    IF ~isPositive(a.amount) THEN Throw("Amount must be > 0")
    ELSE IF ~id26.ok THEN id26
    ELSE LET id59 == tlv("59", slice(a.env.MERCHANT_NAME, 0, 25))
             id60 == tlv("60", IF a.env.MERCHANT_CITY # "" THEN a.env.MERCHANT_CITY
                               ELSE "Singapore")
             id62 == tlv("62", tlv("01", slice(a.reference, 0, 25)))
             body == tlv("00", "01") \o tlv("01", "12") \o id26.value \o tlv("52", "0000")
                         \o tlv("53", "702") \o tlv("54", toFixed2(a.amount))
                         \o tlv("58", "SG") \o id60 \o id59 \o id62
             crc  == crc16ccitt(CharCodes(body \o "63" \o "04"))
         IN  Ok(body \o tlv("63", crc))

\* the assembler taking the bill reference from the Lunar counter when the
\* counter has moved
buildPayNowPayload_readsCounter(a) ==
    LET id26 == buildMAI_PayNow(a) IN
    IF ~isPositive(a.amount) THEN Throw("Amount must be > 0")
    ELSE IF ~id26.ok THEN id26
    ELSE LET id59 == tlv("59", slice(a.env.MERCHANT_NAME, 0, 25))
             id60 == tlv("60", IF a.env.MERCHANT_CITY # "" THEN a.env.MERCHANT_CITY
                               ELSE "Singapore")
             ref  == IF counters["Lunar"] > 0 THEN formatTxnId("Lunar", counters["Lunar"])
                     ELSE a.reference
             id62 == tlv("62", tlv("01", slice(ref, 0, 25)))
             body == tlv("00", "01") \o tlv("01", "12") \o id26.value \o tlv("52", "0000")
                         \o tlv("53", "702") \o tlv("54", toFixed2(a.amount))
                         \o tlv("58", "SG") \o id59 \o id60 \o id62
             crc  == crc16ccitt(CharCodes(body \o "63" \o "04"))
         IN  Ok(body \o tlv("63", crc))

\* function buildPayNowPayload({ mode, uen, mobile, amount, reference,
\* merchantName, merchantCity, editable, expiry }) with the module constants
\* MERCHANT_NAME and MERCHANT_CITY in a.env
buildPayNowPayload(a) ==
    LET id26 == buildMAI_PayNow(a) IN
    IF ~isPositive(a.amount) THEN Throw("Amount must be > 0")
    ELSE IF ~id26.ok THEN id26
    ELSE LET id00 == tlv("00", "01")
             id01 == tlv("01", "12")
             id52 == tlv("52", "0000")
             id53 == tlv("53", "702")
             id54 == tlv("54", toFixed2(a.amount))
             id58 == tlv("58", "SG")
             id59 == tlv("59", slice(a.env.MERCHANT_NAME, 0, 25))
             id60 == tlv("60", IF a.env.MERCHANT_CITY # "" THEN a.env.MERCHANT_CITY
                               ELSE "Singapore")
             bill == tlv("01", slice(a.reference, 0, 25))
             id62 == tlv("62", bill)
             body == id00 \o id01 \o id26.value \o id52 \o id53 \o id54 \o id58
                         \o id59 \o id60 \o id62
             crc  == crc16ccitt(CharCodes(body \o "63" \o "04"))
         IN  Ok(body \o tlv("63", crc))

-----------------------------------------------------------------------------
(* The allocator as a state machine: DB.counters, the clock, and the history *)
(* of what nextTxnId returned                                                *)

\* the company arguments the model passes to nextTxnId: the four companies, a
\* case variant, the empty company (DB.users[uid]?.company || '') and a
\* company the code does not know
CompanyArgs == {"Lunar", "Wave", "Ion", "101", "lunar", "", "Foo"}

NoCall ==
    [n |-> 0, company |-> "", key |-> "", id |-> "", at |-> [y |-> 0, m |-> 0, d |-> 0, h |-> 0],
     reset |-> FALSE, before |-> freshCounters(NULL)]

NoReset == [n |-> 0, by |-> "", before |-> freshCounters(NULL)]

\* the counter a returned id carries
idCounter(id) == DecimalValue(sliceFrom(id, 1))

\* one call of nextTxnId(company), with the history of what it returned
AllocStep(company) ==
    LET r     == nextTxnId(counters, company, now)
        reset == counters["date"] # r.counters["date"]
        key   == counterKey(company)
        old   == IF reset THEN <<>> ELSE issued
        ret   == IF reset THEN <<>> ELSE returned
    IN  /\ counters' = r.counters
        /\ issued' = IF r.id \in DOMAIN old
                     THEN [old EXCEPT ![r.id] = @ + 1]
                     ELSE old @@ (r.id :> 1)
        /\ returned' = IF key \in DOMAIN ret
                       THEN [ret EXCEPT ![key] = Append(@, r.id)]
                       ELSE ret @@ (key :> <<r.id>>)
        /\ lastCall' = [n |-> calls + 1, company |-> company, key |-> key,
                        id |-> r.id, at |-> now, reset |-> reset,
                        before |-> counters]
        /\ lastReset' = IF reset
                         THEN [n |-> lastReset.n + 1, by |-> key, before |-> counters]
                         ELSE lastReset
        /\ calls' = calls + 1

NoArgs == [fn |-> "none"]
NoResult == [ok |-> FALSE, value |-> "", error |-> "not called"]

CodecIdle == args = NoArgs /\ result = NoResult

\* no user, no session, no handler running
BotIdle ==
    /\ users = <<>>
    /\ stepState = <<>>
    /\ sessions = <<>>
    /\ tasks = {}
    /\ started = 0
    /\ sales = <<>>

\* let DB = { ..., counters:{ date:null, Lunar:0, Wave:0, Ion:0, '101':0 } }
AllocInitFresh ==
    /\ counters = freshCounters(NULL)
    /\ issued = <<>>
    /\ returned = <<>>

\* the state WrapAt - 1 allocations for Lunar inside the window of the start
\* instant lead to
AllocInitNearWrap ==
    /\ counters = [freshCounters(resetKeyNoon(now)) EXCEPT !["Lunar"] = WrapAt - 1]
    /\ issued = [id \in {formatTxnId("Lunar", k) : k \in 1..(WrapAt - 1)} |-> 1]
    /\ returned = ("Lunar" :> [k \in 1..(WrapAt - 1) |-> formatTxnId("Lunar", k)])

InitAlloc ==
    /\ \/ now \in StartInstants /\ AllocInitFresh
       \/ now = WrapStart /\ AllocInitNearWrap
    /\ ticks = 0
    /\ calls = 0
    /\ lastCall = NoCall
    /\ lastReset = NoReset
    /\ CodecIdle
    /\ BotIdle

\* the wall clock advances
Tick ==
    /\ ticks < MaxTicks
    /\ now' = NextInstant(now)
    /\ ticks' = ticks + 1
    /\ UNCHANGED <<counters, issued, returned, lastCall, lastReset, calls>>
    /\ UNCHANGED <<codecVars, botVars>>

CallNextTxnId(company) ==
    /\ calls < MaxCalls
    /\ AllocStep(company)
    /\ UNCHANGED <<now, ticks, codecVars, botVars>>

NextAlloc ==
    \/ Tick
    \/ \E company \in CompanyArgs : CallNextTxnId(company)

SpecAlloc == InitAlloc /\ [][NextAlloc]_vars

-----------------------------------------------------------------------------
(* The pure helpers as a state machine: one call, its arguments and result *)

MaxCrcLen == 3

CrcAlphabet == {0, 49, 128, 255}
CheckString == "123456789"

\* the strings handed to crc16ccitt, as code units
CrcInputs ==
    UNION {[1..n -> CrcAlphabet] : n \in 0..MaxCrcLen} \cup {CharCodes(CheckString)}

TxnIdArgs == {"L001", "X999"}
OperatorArgs == {"", "Al", "Operator Long Name"}
NameArgs == {"", "T5", "Table Five 13", "Table Five 130", "Customer long name 1234567890"}

ReferenceInputs ==
    [fn : {"buildReference"}, txnId : TxnIdArgs, operator : OperatorArgs, name : NameArgs]

\* process.env as read at lines 25-32
EnvArgs ==
    [MERCHANT_NAME : {"Receiver", "A Merchant Name Longer Than 25"},
     MERCHANT_CITY : {"Singapore"}]

\* PAYNOW_MODE with the proxy it selects
ProxyArgs ==
    [mode : {"mobile"}, uen : {""},
     mobile : {"91234567", "+65 8123 4567", "006591234567", "12345678", ""}]
    \cup [mode : {"uen"}, uen : {"201912345K", ""}, mobile : {""}]

\* Numbers below 10^21 as cents, and NaN
AmountArgs ==
    { [nan |-> FALSE, cents |-> 0, e21 |-> 0], [nan |-> FALSE, cents |-> 5, e21 |-> 0],
      [nan |-> FALSE, cents |-> 10300, e21 |-> 0], [nan |-> TRUE, cents |-> 0, e21 |-> 0] }

PayloadReferenceArgs == {"", "L001 - Al - T5", "X999 - Operator Long Name - T5"}
ExpiryArgs == {"", "20261231235959"}

PayloadInputs ==
    { [fn |-> "buildPayNowPayload", mode |-> p.mode, uen |-> p.uen, mobile |-> p.mobile,
       amount |-> amt, reference |-> ref, merchantName |-> env.MERCHANT_NAME,
       merchantCity |-> env.MERCHANT_CITY, editable |-> ed, expiry |-> ex, env |-> env] :
      p \in ProxyArgs, amt \in AmountArgs, ref \in PayloadReferenceArgs,
      ed \in BOOLEAN, ex \in ExpiryArgs, env \in EnvArgs }

\* a text to cut values of any length up to 120 characters from
Filler ==
    "ABCDEFGHIJKLMNOPQRSTUVWXYZ0123456789ABCDEFGHIJKLMNOPQRSTUVWXYZ0123456789"
        \o "ABCDEFGHIJKLMNOPQRSTUVWXYZ0123456789ABCDEFGHIJKL"

\* the lengths of the values handed to tlv
TlvLengths == {0, 1, 9, 10, 25, 99, 100, 101}

\* tlv is called with two-character literal ids only
TlvInputs ==
    [fn : {"tlv"}, id : {"00", "26", "62"}, value : {slice(Filler, 0, n) : n \in TlvLengths}]

\* PAYNOW_MOBILE as an operator may type it
MobileArgs ==
    {"91234567", "6591234567", "06591234567", "006591234567", "12345678",
     "81234567", "+65 8123 4567", "(65) 9123-4567", "", "659123456", "6512345678",
     "6691234567", "0659123456", "0065912345678", "9123456"}

\* PAYNOW_UEN: unset, two registered forms, and longer texts
UenArgs == {"", "201912345K", "T08GB0001A", slice(Filler, 0, 60), slice(Filler, 0, 100)}

\* the arguments of buildMAI_PayNow
MAIInputs ==
    [fn : {"buildMAI_PayNow"}, mode : {"mobile"}, uen : {""}, mobile : MobileArgs,
     editable : BOOLEAN, expiry : ExpiryArgs]
    \cup [fn : {"buildMAI_PayNow"}, mode : {"uen"}, uen : UenArgs, mobile : {""},
          editable : BOOLEAN, expiry : ExpiryArgs]

\* a call as generatePayNowQR makes it, with every default taken from the
\* environment
DefaultPayloadArgs ==
    [fn |-> "buildPayNowPayload", mode |-> "uen", uen |-> "201912345K", mobile |-> "",
     amount |-> [nan |-> FALSE, cents |-> 10300, e21 |-> 0], reference |-> "L001 - Al - T5",
     merchantName |-> "Receiver", merchantCity |-> "Singapore", editable |-> FALSE,
     expiry |-> "",
     env |-> [MERCHANT_NAME |-> "Receiver", MERCHANT_CITY |-> "Singapore"]]

\* calls that differ from the default one in one or two arguments: a
\* merchantName or merchantCity argument other than the configured one, a long
\* configured city, a long UEN with and without an expiry, a long reference,
\* negative and large amounts
PayloadEdgeInputs ==
    {[DefaultPayloadArgs EXCEPT !.merchantName = n] :
        n \in {"Shop", "Another Merchant Name Beyond 25"}}
    \cup {[DefaultPayloadArgs EXCEPT !.merchantCity = "Johor Bahru"]}
    \cup {[DefaultPayloadArgs EXCEPT !.env.MERCHANT_CITY = slice(Filler, 0, 100),
                                     !.merchantCity = slice(Filler, 0, 100)]}
    \cup {[DefaultPayloadArgs EXCEPT !.uen = u, !.expiry = ex] :
            u \in {slice(Filler, 0, 60), slice(Filler, 0, 100)}, ex \in ExpiryArgs}
    \cup {[DefaultPayloadArgs EXCEPT !.reference = slice(Filler, 0, 100)]}
    \cup {[DefaultPayloadArgs EXCEPT !.amount = [nan |-> FALSE, cents |-> c, e21 |-> 0],
                                     !.mobile = m, !.mode = md] :
            c \in {-500, -1, 1, 2000000000}, m \in {"", "12345678"},
            md \in {"uen", "mobile"}}

InitCodec ==
    /\ now = WrapStart
    /\ AllocInitFresh
    /\ ticks = 0
    /\ calls = 0
    /\ lastCall = NoCall
    /\ lastReset = NoReset
    /\ \/ args \in ReferenceInputs
       \/ args \in [fn : {"crc16ccitt"}, units : CrcInputs]
       \/ args \in PayloadInputs
       \/ args \in PayloadEdgeInputs
       \/ args \in TlvInputs
       \/ args \in MAIInputs
    /\ result = NoResult
    /\ BotIdle

CallBuildReference ==
    /\ args.fn = "buildReference"
    /\ result = NoResult
    /\ result' = Ok(buildReference(args.txnId, args.operator, args.name))
    /\ UNCHANGED <<allocVars, args, botVars>>

CallCrc16ccitt ==
    /\ args.fn = "crc16ccitt"
    /\ result = NoResult
    /\ result' = Ok(crc16ccitt(args.units))
    /\ UNCHANGED <<allocVars, args, botVars>>

CallBuildPayNowPayload ==
    /\ args.fn = "buildPayNowPayload"
    /\ result = NoResult
    /\ result' = buildPayNowPayload(args)
    /\ UNCHANGED <<allocVars, args, botVars>>

\* tlv has no failing path
CallTlv ==
    /\ args.fn = "tlv"
    /\ result = NoResult
    /\ result' = Ok(tlv(args.id, args.value))
    /\ UNCHANGED <<allocVars, args, botVars>>

CallBuildMAI_PayNow ==
    /\ args.fn = "buildMAI_PayNow"
    /\ result = NoResult
    /\ result' = buildMAI_PayNow(args)
    /\ UNCHANGED <<allocVars, args, botVars>>

NextCodec ==
    \/ CallBuildReference
    \/ CallCrc16ccitt
    \/ CallBuildPayNowPayload
    \/ CallTlv
    \/ CallBuildMAI_PayNow

SpecCodec == InitCodec /\ [][NextCodec]_vars

-----------------------------------------------------------------------------
(* The handlers that finalise or cancel a sale, as a state machine.         *)
(* Updates are handled concurrently                                         *)
(* (bot.handleUpdate is not awaited by the webhook): a handler runs up to   *)
(* its next await, and any other handler or timer callback may run before   *)
(* it resumes. A step of the model is the code between two awaits that      *)
(* reads or writes DB, stepState or a session; awaits with only local code  *)
(* between them (ctx.answerCbQuery at the start of a callback handler,      *)
(* consecutive Telegram and file calls) are taken with the step that        *)
(* follows them. Telegram messages and their ids are outside the model.     *)

MIN_AMOUNT == 100

Users == {"u1", "u2"}

NoSession == 0

\* the object /sale stores in stepState[uid]; name, payment and amount are
\* s.fields, with "" and 0 for null; expiryTimer tells whether the timer the
\* session holds is armed; ended is history: the handler that finalised or
\* cancelled the session has reached its delete stepState[uid]
SaleSession(u) ==
    [uid |-> u, mode |-> "sale", awaiting |-> "", name |-> "", payment |-> "",
     amount |-> 0, expiryTimer |-> FALSE, ended |-> FALSE]

\* a session a user has filled in through /sale, Name/Table, Payment, Amount
FilledSession(u, payment) ==
    [SaleSession(u) EXCEPT !.name = "T5", !.payment = payment, !.amount = 200,
                           !.expiryTimer = TRUE]

\* the smallest number no suspended invocation carries
FreeTask == CHOOSE n \in 1..(Cardinality(tasks) + 1) : \A t \in tasks : t.n # n

\* room for one more suspended invocation
CanSuspend == Cardinality(tasks) < MaxInFlight

\* a suspended handler invocation with its local variables
Task(u, handler, pc, s) ==
    [n |-> FreeTask, uid |-> u, handler |-> handler, pc |-> pc, s |-> s,
     operator |-> "", companyName |-> "", baseAmt |-> 0, txnId |-> "", ref |-> ""]

Resume(t, pc) == (tasks \ {t}) \cup {[t EXCEPT !.pc = pc]}
Return(t) == tasks \ {t}

\* if (s.expiryTimer) clearTimeout(s.expiryTimer)
clearTimeout(ss, sid) == [ss EXCEPT ![sid].expiryTimer = FALSE]

\* const s=stepState[uid]; if (!s||s.mode!=='sale') return; did not return
InSale(u) == stepState[u] # NoSession /\ sessions[stepState[u]].mode = "sale"

\* (f.amount && f.amount>=MIN_AMOUNT)?f.amount:MIN_AMOUNT
baseAmtOf(amount) == IF amount # 0 /\ amount >= MIN_AMOUNT THEN amount ELSE MIN_AMOUNT

\* Number((baseAmt*1.03).toFixed(2)), in cents
surcharged(baseAmt) == baseAmt * 103

\* the object pushed to DB.sales, amounts in cents, without its timestamp
SaleRecord(t, payment, amount, reference) ==
    [operatorId |-> t.uid, operator |-> t.operator, company |-> t.companyName,
     type |-> "single", name |-> sessions[t.s].name, payment |-> payment,
     amountBase |-> t.baseAmt * 100, amount |-> amount,
     transactionId |-> t.txnId, reference |-> reference]

\* DB after loadDB() of a file with two registered operators, each with the
\* sale session /sale created and the Name/Table, Payment and Amount actions
\* filled in
InitBot ==
    /\ now = WrapStart
    /\ AllocInitFresh
    /\ ticks = 0
    /\ calls = 0
    /\ lastCall = NoCall
    /\ lastReset = NoReset
    /\ CodecIdle
    /\ \E company \in {"Lunar", "Wave"} :
          users = ("u1" :> [nickname |-> "Al", company |-> "Lunar"])
               @@ ("u2" :> [nickname |-> "Bo", company |-> company])
    /\ \E payment \in {"QR Code", "Cash"} :
          sessions = <<FilledSession("u1", "QR Code"), FilledSession("u2", payment)>>
    /\ stepState = ("u1" :> 1) @@ ("u2" :> 2)
    /\ tasks = {}
    /\ started = 0
    /\ sales = <<>>

\* the checks of a finalising handler, nextTxnId(companyName) and
\* buildReference, which run without an await between them
AllocateFor(u, handler, payment, withRef) ==
    LET sid         == stepState[u]
        s           == sessions[sid]
        operator    == IF users[u].nickname # "" THEN users[u].nickname ELSE "Unknown"
        companyName == users[u].company
        txnId       == nextTxnId(counters, companyName, now).id
    IN  IF ~InSale(u) \/ ~(s.name # "" /\ s.payment = payment)
        THEN UNCHANGED <<counters, issued, returned, lastCall, lastReset, calls, tasks>>
        ELSE /\ AllocStep(companyName)
             /\ tasks' = tasks \cup
                   {[Task(u, handler, "saveDB", sid) EXCEPT
                        !.operator = operator, !.companyName = companyName,
                        !.baseAmt = baseAmtOf(s.amount), !.txnId = txnId,
                        !.ref = IF withRef THEN buildReference(txnId, operator, s.name)
                                ELSE ""]}

\* bot.action('sale_generate_qr') up to await saveDB()
QrAllocate(u) ==
    /\ started < MaxUpdates
    /\ CanSuspend
    /\ started' = started + 1
    /\ AllocateFor(u, "sale_generate_qr", "QR Code", TRUE)
    /\ UNCHANGED <<now, ticks, codecVars, users, stepState, sessions, sales>>

\* saveDB, generatePayNowQR and replyWithPhoto settle: DB.sales.push({...});
\* await saveDB(). If one of them fails the handler ends, inside the try block
\* through the catch
QrRecord(t, ok) ==
    /\ t.handler = "sale_generate_qr" /\ t.pc = "saveDB"
    /\ IF ok
       THEN /\ sales' = Append(sales, SaleRecord(t, "QR Code", surcharged(t.baseAmt), t.ref))
            /\ tasks' = Resume(t, "saveDB2")
       ELSE /\ tasks' = Return(t)
            /\ UNCHANGED sales
    /\ UNCHANGED <<allocVars, codecVars, users, stepState, sessions, started>>

\* bot.action('sale_finalize_cash') up to await saveDB()
CashAllocate(u) ==
    /\ started < MaxUpdates
    /\ CanSuspend
    /\ started' = started + 1
    /\ AllocateFor(u, "sale_finalize_cash", "Cash", FALSE)
    /\ UNCHANGED <<now, ticks, codecVars, users, stepState, sessions, sales>>

\* saveDB() settles; DB.sales.push({...}); await saveDB()
CashRecord(t, ok) ==
    /\ t.handler = "sale_finalize_cash" /\ t.pc = "saveDB"
    /\ IF ok
       THEN /\ sales' = Append(sales, SaleRecord(t, "Cash", t.baseAmt * 100, ""))
            /\ tasks' = Resume(t, "saveDB2")
       ELSE /\ tasks' = Return(t)
            /\ UNCHANGED sales
    /\ UNCHANGED <<allocVars, codecVars, users, stepState, sessions, started>>

\* the second saveDB (and the reply of the cash handler) settle:
\* if (s.expiryTimer) clearTimeout(s.expiryTimer); await tryDelete(...) twice.
\* If one of them fails the handler ends
FinalClearTimer(t, ok) ==
    /\ t.handler \in {"sale_generate_qr", "sale_finalize_cash"} /\ t.pc = "saveDB2"
    /\ IF ok
       THEN /\ sessions' = clearTimeout(sessions, t.s)
            /\ tasks' = Resume(t, "tryDelete")
       ELSE /\ tasks' = Return(t)
            /\ UNCHANGED sessions
    /\ UNCHANGED <<allocVars, codecVars, users, stepState, started, sales>>

\* bot.action('sale_cancel') up to the awaits of tryDelete
CancelClearTimer(u) ==
    /\ started < MaxUpdates
    /\ CanSuspend
    /\ started' = started + 1
    /\ IF stepState[u] # NoSession
       THEN /\ sessions' = clearTimeout(sessions, stepState[u])
            /\ tasks' = tasks \cup {Task(u, "sale_cancel", "tryDelete", stepState[u])}
       ELSE UNCHANGED <<sessions, tasks>>
    /\ UNCHANGED <<allocVars, codecVars, users, stepState, sales>>

\* delete stepState[uid]: the end of the QR, cash and cancel handlers,
\* whatever session is stored there by now
DeleteStepState(t) ==
    /\ t.pc = "tryDelete"
    /\ t.handler \in {"sale_generate_qr", "sale_finalize_cash", "sale_cancel"}
    /\ stepState' = [stepState EXCEPT ![t.uid] = NoSession]
    /\ sessions' = [sessions EXCEPT ![t.s].ended = TRUE]
    /\ tasks' = Return(t)
    /\ UNCHANGED <<allocVars, codecVars, users, started, sales>>

Next ==
    \/ Tick
    \/ \E u \in Users : QrAllocate(u)
    \/ \E u \in Users : CashAllocate(u)
    \/ \E u \in Users : CancelClearTimer(u)
    \/ \E t \in tasks, ok \in BOOLEAN : QrRecord(t, ok)
    \/ \E t \in tasks, ok \in BOOLEAN : CashRecord(t, ok)
    \/ \E t \in tasks, ok \in BOOLEAN : FinalClearTimer(t, ok)
    \/ \E t \in tasks : DeleteStepState(t)

Spec == InitBot /\ [][Next]_vars

-----------------------------------------------------------------------------
(* The amount a QR sale charges: sale_generate_qr from the amount of the    *)
(* session to the payload generatePayNowQR encodes                          *)

\* the Number d for a whole d below 10^21
Dollars(d) == [nan |-> FALSE, cents |-> d * 100, e21 |-> 0]

\* f.amount: null (as 0), the amounts of the amt_ buttons, whole amounts typed
\* after amt_custom, and the typed amount 1e21
FieldAmountArgs ==
    {Dollars(d) : d \in {0, 100, 150, 200, 300, 500, 1000, 2000, 150000}}
        \cup {[nan |-> FALSE, cents |-> 0, e21 |-> 100]}

\* (f.amount && f.amount>=MIN_AMOUNT)?f.amount:MIN_AMOUNT on Numbers
baseAmtOfNumber(amount) ==
    IF amount.e21 > 0 \/ amount.cents >= MIN_AMOUNT * 100 THEN amount ELSE Dollars(MIN_AMOUNT)

\* Number((baseAmt*1.03).toFixed(2)) of a whole baseAmt, or of one from 10^21
\* (whose toFixed text is the exponent form, which Number reads back)
payAmtOf(baseAmt) ==
    IF baseAmt.e21 > 0 THEN [baseAmt EXCEPT !.e21 = (@ * 103) \div 100]
    ELSE [baseAmt EXCEPT !.cents = surcharged(@ \div 100)]

\* the payload generatePayNowQR({ amount, reference }) hands to QRCode: every
\* other argument of buildPayNowPayload takes its default
generatePayNowQR(amount, reference) ==
    buildPayNowPayload([DefaultPayloadArgs EXCEPT !.amount = amount, !.reference = reference])

QrSaleInputs ==
    [fn : {"sale_generate_qr"}, amount : FieldAmountArgs, name : {"T5", "Table Five 13"},
     operator : {"Al", "Operator Long Name"}, txnId : {"L001", "W999"}]

InitQr ==
    /\ now = WrapStart
    /\ AllocInitFresh
    /\ ticks = 0
    /\ calls = 0
    /\ lastCall = NoCall
    /\ lastReset = NoReset
    /\ args \in QrSaleInputs
    /\ result = NoResult
    /\ BotIdle

\* baseAmt, payAmt, ref and the payload of generatePayNowQR
CallQrPayload ==
    /\ args.fn = "sale_generate_qr"
    /\ result = NoResult
    /\ result' = generatePayNowQR(payAmtOf(baseAmtOfNumber(args.amount)),
                                  buildReference(args.txnId, args.operator, args.name))
    /\ UNCHANGED <<allocVars, args, botVars>>

NextQr == CallQrPayload

SpecQr == InitQr /\ [][NextQr]_vars

-----------------------------------------------------------------------------
(* The assembler called while sales go on: buildPayNowPayload is            *)
(* synchronous, so a call is one step, taken between the steps of the       *)
(* handler of one operator who generates QR sales                           *)

\* the arguments of the calls: the call generatePayNowQR makes, and a call
\* on the mobile path with a number the builder rejects
AssemblerArgs ==
    {DefaultPayloadArgs,
     [DefaultPayloadArgs EXCEPT !.mode = "mobile", !.uen = "", !.mobile = "12345678"]}

\* one registered operator with a filled sale session
InitPure ==
    /\ now = WrapStart
    /\ AllocInitFresh
    /\ ticks = 0
    /\ calls = 0
    /\ lastCall = NoCall
    /\ lastReset = NoReset
    /\ CodecIdle
    /\ users = ("u1" :> [nickname |-> "Al", company |-> "Lunar"])
    /\ sessions = <<FilledSession("u1", "QR Code")>>
    /\ stepState = ("u1" :> 1)
    /\ tasks = {}
    /\ started = 0
    /\ sales = <<>>

\* buildPayNowPayload(a): no statement of lines 96-112 assigns to anything
\* but its own constants
CallAssembler(a) ==
    /\ args' = a
    /\ result' = buildPayNowPayload(a)
    /\ UNCHANGED <<allocVars, botVars>>

NextPure ==
    \/ QrAllocate("u1")
    \/ \E t \in tasks, ok \in BOOLEAN : QrRecord(t, ok)
    \/ \E t \in tasks, ok \in BOOLEAN : FinalClearTimer(t, ok)
    \/ \E t \in tasks : DeleteStepState(t)
    \/ \E a \in AssemblerArgs : CallAssembler(a)

SpecPure == InitPure /\ [][NextPure]_vars

-----------------------------------------------------------------------------
(* A sale session from /sale to its end: the command, Cancel and the        *)
(* inactivity timer. A timer is armed from resetSaleTimer until it fires or *)
(* is cleared; an armed timer may fire at any later step, since any amount  *)
(* of time may pass between two steps of the handlers                       *)

\* the object /start and /sale store for an operator who still has to give a
\* nickname or a company
PromptSession(u, mode, awaiting) ==
    [SaleSession(u) EXCEPT !.mode = mode, !.awaiting = awaiting]

\* resetSaleTimer that clears the timer s holds and arms none
resetSaleTimer_clearOnly(ss, sid) == [ss EXCEPT ![sid].expiryTimer = FALSE]

\* resetSaleTimer(ctx, s): the timer s holds is cleared and a new one armed
resetSaleTimer(ss, sid) == [ss EXCEPT ![sid].expiryTimer = TRUE]

\* touch(ctx, s)
touch(ss, sid) == IF ss[sid].mode = "sale" THEN resetSaleTimer(ss, sid) ELSE ss

\* DB after loadDB() of a file with two registered operators, outside a sale
InitSession ==
    /\ now = WrapStart
    /\ AllocInitFresh
    /\ ticks = 0
    /\ calls = 0
    /\ lastCall = NoCall
    /\ lastReset = NoReset
    /\ CodecIdle
    /\ users = ("u1" :> [nickname |-> "Al", company |-> "Lunar"])
            @@ ("u2" :> [nickname |-> "Bo", company |-> "Wave"])
    /\ sessions = <<>>
    /\ stepState = ("u1" :> NoSession) @@ ("u2" :> NoSession)
    /\ tasks = {}
    /\ started = 0
    /\ sales = <<>>

\* /sale that opens a sale session without looking at nickname and company
SaleCommand_unchecked(u) ==
    /\ started < MaxUpdates
    /\ CanSuspend
    /\ started' = started + 1
    /\ sessions' = Append(sessions, SaleSession(u))
    /\ stepState' = [stepState EXCEPT ![u] = Len(sessions) + 1]
    /\ tasks' = tasks \cup {Task(u, "sale", "reply", Len(sessions) + 1)}
    /\ UNCHANGED <<allocVars, codecVars, users, sales>>

\* bot.command('sale') up to its first await: an operator without nickname or
\* company is asked for it, any other gets a new session stored at once
SaleCommand(u) ==
    /\ started < MaxUpdates
    /\ CanSuspend
    /\ started' = started + 1
    /\ IF users[u].nickname = ""
       THEN /\ tasks' = tasks \cup {Task(u, "sale", "askNickname", NoSession)}
            /\ UNCHANGED <<stepState, sessions>>
       ELSE IF users[u].company = ""
       THEN /\ tasks' = tasks \cup {Task(u, "sale", "askCompany", NoSession)}
            /\ UNCHANGED <<stepState, sessions>>
       ELSE /\ sessions' = Append(sessions, SaleSession(u))
            /\ stepState' = [stepState EXCEPT ![u] = Len(sessions) + 1]
            /\ tasks' = tasks \cup {Task(u, "sale", "reply", Len(sessions) + 1)}
    /\ UNCHANGED <<allocVars, codecVars, users, sales>>

\* the reply of /sale settles: await saleShowOverview(ctx, stepState[uid]),
\* which throws when stepState[uid] is gone by now
SaleShowOverview(t) ==
    /\ t.handler = "sale" /\ t.pc = "reply"
    /\ tasks' = IF stepState[t.uid] = NoSession THEN Return(t) ELSE Resume(t, "overview")
    /\ UNCHANGED <<allocVars, codecVars, users, stepState, sessions, started, sales>>

\* the overview is shown: resetSaleTimer(ctx, stepState[uid]) on whatever
\* session is stored by now; it throws when there is none
SaleArmTimer(t) ==
    /\ t.handler = "sale" /\ t.pc = "overview"
    /\ sessions' = IF stepState[t.uid] = NoSession THEN sessions
                   ELSE resetSaleTimer(sessions, stepState[t.uid])
    /\ tasks' = Return(t)
    /\ UNCHANGED <<allocVars, codecVars, users, stepState, started, sales>>

\* bot.action('sale_back') up to its awaits (tryDelete, saleShowOverview);
\* s is the session stored when the handler starts
SaleBack(u) ==
    /\ started < MaxUpdates
    /\ CanSuspend
    /\ started' = started + 1
    /\ tasks' = IF InSale(u) THEN tasks \cup {Task(u, "sale_back", "overview", stepState[u])}
                ELSE tasks
    /\ UNCHANGED <<allocVars, codecVars, users, stepState, sessions, sales>>

\* the overview is shown again: touch(ctx, s) on the session the handler holds
SaleBackTouch(t) ==
    /\ t.handler = "sale_back" /\ t.pc = "overview"
    /\ sessions' = touch(sessions, t.s)
    /\ tasks' = Return(t)
    /\ UNCHANGED <<allocVars, codecVars, users, stepState, started, sales>>

\* the timer session sid holds fires: the callback of resetSaleTimer starts
\* and waits for tryDelete twice
ExpiryFire(sid) ==
    /\ sessions[sid].expiryTimer
    /\ sessions' = [sessions EXCEPT ![sid].expiryTimer = FALSE]
    /\ tasks' = tasks \cup {Task(sessions[sid].uid, "expiry", "tryDelete", sid)}
    /\ UNCHANGED <<allocVars, codecVars, users, stepState, started, sales>>

\* the callback goes on: delete stepState[String(ctx.from.id)], whatever
\* session is stored there by now, then await ctx.reply('This sale session
\* expired ...')
ExpiryDelete(t) ==
    /\ t.handler = "expiry" /\ t.pc = "tryDelete"
    /\ stepState' = [stepState EXCEPT ![t.uid] = NoSession]
    /\ tasks' = Return(t)
    /\ UNCHANGED <<allocVars, codecVars, users, sessions, started, sales>>

NextSession ==
    \/ \E u \in Users : SaleCommand(u)
    \/ \E u \in Users : SaleBack(u)
    \/ \E u \in Users : CancelClearTimer(u)
    \/ \E t \in tasks : SaleShowOverview(t)
    \/ \E t \in tasks : SaleArmTimer(t)
    \/ \E t \in tasks : SaleBackTouch(t)
    \/ \E t \in tasks : DeleteStepState(t)
    \/ \E sid \in DOMAIN sessions : ExpiryFire(sid)
    \/ \E t \in tasks : ExpiryDelete(t)

SpecSession == InitSession /\ [][NextSession]_vars

\* Node runs every continuation whose await has settled and every timer that
\* is due: no step of a handler or of a timer callback waits forever
SpecSessionLive ==
    /\ SpecSession
    /\ WF_vars(\E t \in tasks : SaleShowOverview(t))
    /\ WF_vars(\E t \in tasks : SaleArmTimer(t))
    /\ WF_vars(\E t \in tasks : SaleBackTouch(t))
    /\ WF_vars(\E t \in tasks : DeleteStepState(t))
    /\ WF_vars(\E sid \in DOMAIN sessions : ExpiryFire(sid))
    /\ WF_vars(\E t \in tasks : ExpiryDelete(t))

-----------------------------------------------------------------------------
(* Generate QR step by step: the handler of sale_generate_qr after its      *)
(* first saveDB, with generatePayNowQR and replyWithPhoto as steps of their *)
(* own. args holds the defaults generatePayNowQR takes from the             *)
(* environment, result what generatePayNowQR last gave. Both writes of      *)
(* db.json succeed here                                                     *)

\* MODE, UEN, MOBILE, MERCHANT_NAME and MERCHANT_CITY with PAYNOW_UEN set, and
\* with PAYNOW_UEN left unset
PayNowEnvs == {DefaultPayloadArgs, [DefaultPayloadArgs EXCEPT !.uen = ""]}

\* one registered operator with a filled sale session
InitGenerate ==
    /\ now = WrapStart
    /\ AllocInitFresh
    /\ ticks = 0
    /\ calls = 0
    /\ lastCall = NoCall
    /\ lastReset = NoReset
    /\ args \in PayNowEnvs
    /\ result = NoResult
    /\ users = ("u1" :> [nickname |-> "Al", company |-> "Lunar"])
    /\ sessions = <<FilledSession("u1", "QR Code")>>
    /\ stepState = ("u1" :> 1)
    /\ tasks = {}
    /\ started = 0
    /\ sales = <<>>

\* QRCode.toBuffer(payload, ...) that rejects
RenderError == Throw("QRCode.toBuffer")

\* a handler that pushes the record before it has the QR
QrGenerate_recordFirst(t, rendered) ==
    LET payload == buildPayNowPayload(
                       [args EXCEPT !.amount = [nan |-> FALSE, cents |-> surcharged(t.baseAmt),
                                                e21 |-> 0],
                                    !.reference = t.ref])
        buffer  == IF payload.ok /\ ~rendered THEN RenderError ELSE payload
    IN  /\ t.handler = "sale_generate_qr" /\ t.pc = "saveDB"
        /\ result' = buffer
        /\ sales' = Append(sales, SaleRecord(t, "QR Code", surcharged(t.baseAmt), t.ref))
        /\ tasks' = Resume(t, IF buffer.ok THEN "photo" ELSE "failReply")
        /\ UNCHANGED <<allocVars, args, users, stepState, sessions, started>>

\* saveDB() settles: await generatePayNowQR({ amount:payAmt, reference:ref });
\* when buildPayNowPayload throws or QRCode.toBuffer rejects, the catch runs
\* await ctx.reply('Failed to generate QR.'), else await ctx.replyWithPhoto
QrGenerate(t, rendered) ==
    LET payload == buildPayNowPayload(
                       [args EXCEPT !.amount = [nan |-> FALSE, cents |-> surcharged(t.baseAmt),
                                                e21 |-> 0],
                                    !.reference = t.ref])
        buffer  == IF payload.ok /\ ~rendered THEN RenderError ELSE payload
    IN  /\ t.handler = "sale_generate_qr" /\ t.pc = "saveDB"
        /\ result' = buffer
        /\ tasks' = Resume(t, IF buffer.ok THEN "photo" ELSE "failReply")
        /\ UNCHANGED <<allocVars, args, users, stepState, sessions, started, sales>>

\* a handler that pushes the record whether or not the photo was posted
QrPost_unposted(t, posted) ==
    /\ t.handler = "sale_generate_qr" /\ t.pc = "photo"
    /\ sales' = Append(sales, SaleRecord(t, "QR Code", surcharged(t.baseAmt), t.ref))
    /\ tasks' = Resume(t, IF posted THEN "saveDB2" ELSE "failReply")
    /\ UNCHANGED <<allocVars, codecVars, users, stepState, sessions, started>>

\* replyWithPhoto settles: the QR message is posted, DB.sales.push({...});
\* await saveDB(). When it rejects, the catch replies
QrPost(t, posted) ==
    /\ t.handler = "sale_generate_qr" /\ t.pc = "photo"
    /\ IF posted
       THEN /\ sales' = Append(sales, SaleRecord(t, "QR Code", surcharged(t.baseAmt), t.ref))
            /\ tasks' = Resume(t, "saveDB2")
       ELSE /\ tasks' = Resume(t, "failReply")
            /\ UNCHANGED sales
    /\ UNCHANGED <<allocVars, codecVars, users, stepState, sessions, started>>

\* the reply of the catch settles and the handler returns
QrFailReplied(t) ==
    /\ t.handler = "sale_generate_qr" /\ t.pc = "failReply"
    /\ tasks' = Return(t)
    /\ UNCHANGED <<allocVars, codecVars, users, stepState, sessions, started, sales>>

NextGenerate ==
    \/ QrAllocate("u1")
    \/ \E t \in tasks, rendered \in BOOLEAN : QrGenerate(t, rendered)
    \/ \E t \in tasks, posted \in BOOLEAN : QrPost(t, posted)
    \/ \E t \in tasks : QrFailReplied(t)
    \/ \E t \in tasks : FinalClearTimer(t, TRUE)
    \/ \E t \in tasks : DeleteStepState(t)

SpecGenerate == InitGenerate /\ [][NextGenerate]_vars

-----------------------------------------------------------------------------
(* /report and /history: the handlers that read DB.sales. result holds the  *)
(* last listing a handler produced: the report sent to ADMIN_CHAT_ID, the   *)
(* reply that there are no sales, or the history sent to the operator.      *)
(* Amounts are in cents, a timestamp is the age of the sale in hours        *)

\* ADMIN_IDS of the environment: u1 is an admin, u2 is not
ADMIN_IDS == {"u1"}

\* a check of the admin list that lets every user through
IsAdmin_anyone(uid) == TRUE

\* ADMIN_IDS.includes(uid)
IsAdmin(uid) == uid \in ADMIN_IDS

\* the object /report stores in stepState[uid]; company and scope are s.report
ReportSession(u) ==
    [uid |-> u, mode |-> "report", awaiting |-> "rep_company", name |-> "", payment |-> "",
     amount |-> 0, expiryTimer |-> FALSE, ended |-> FALSE, company |-> "", scope |-> ""]

\* const s=stepState[uid]; if (!s || s.mode!=='report') return; did not return
InReport(u) == stepState[u] # NoSession /\ sessions[stepState[u]].mode = "report"

\* a record as sale_generate_qr and sale_finalize_cash push it, with its age
WorkflowSale(u, operator, company, payment, baseAmt, txnId, hoursAgo) ==
    [operatorId |-> u, operator |-> operator, company |-> company, type |-> "single",
     name |-> "T5", payment |-> payment, amountBase |-> baseAmt * 100,
     amount |-> IF payment = "QR Code" THEN surcharged(baseAmt) ELSE baseAmt * 100,
     transactionId |-> txnId,
     reference |-> IF payment = "QR Code" THEN buildReference(txnId, operator, "T5") ELSE "",
     hoursAgo |-> hoursAgo]

\* a record written before amountBase existed
LegacySale ==
    [operatorId |-> "u2", operator |-> "Bo", company |-> "Lunar", type |-> "single",
     name |-> "T1", payment |-> "Cash", amount |-> 12000, transactionId |-> "L000",
     reference |-> "", hoursAgo |-> 5]

\* DB.sales of db.json, in the order the records were pushed
SalesLists ==
    {<<>>,
     <<WorkflowSale("u2", "Bo", "Wave", "QR Code", 100, "W001", 11),
       WorkflowSale("u2", "Bo", "Lunar", "Cash", 150, "L001", 3),
       WorkflowSale("u1", "Al", "Lunar", "QR Code", 200, "L002", 1)>>,
     <<WorkflowSale("u1", "Al", "Lunar", "QR Code", 2000, "L998", 12),
       LegacySale,
       WorkflowSale("u2", "Bo", "Lunar", "QR Code", 500, "L001", 2),
       WorkflowSale("u1", "Al", "Lunar", "QR Code", 100, "L002", 2),
       WorkflowSale("u2", "Bo", "Wave", "QR Code", 300, "W001", 0)>>}

\* ts >= tenHoursAgoMs()
Within10h(s) == s.hoursAgo <= 10

\* where x goes in a list already sorted by timestamp (Array.prototype.sort
\* is stable)
InsertSale(sorted, x, newestFirst) ==
    LET before == {i \in 1..Len(sorted) :
                      IF newestFirst THEN sorted[i].hoursAgo <= x.hoursAgo
                      ELSE sorted[i].hoursAgo >= x.hoursAgo}
        k      == Cardinality(before)
    IN  SubSeq(sorted, 1, k) \o <<x>> \o SubSeq(sorted, k + 1, Len(sorted))

\* list.sort by timestamp, newest first or oldest first
RECURSIVE sortSales(_, _)
sortSales(list, newestFirst) ==
    IF list = <<>> THEN <<>>
    ELSE InsertSale(sortSales(SubSeq(list, 1, Len(list) - 1), newestFirst),
                    list[Len(list)], newestFirst)

\* getSalesSince(tenHoursAgoMs())
getSalesSince(list) == sortSales(SelectSeq(list, Within10h), FALSE)

\* filterMySales(uid, payment)
filterMySales(list, uid, payment) ==
    sortSales(SelectSeq(list, LAMBDA s : /\ Within10h(s)
                                         /\ s.operatorId = uid
                                         /\ (payment = "ALL" \/ s.payment = payment)),
              TRUE)

\* the charged amount in the place of the net one
netOf_charged(s) == s.amount

\* (s.amountBase ?? s.amount ?? 0)
netOf(s) ==
    IF "amountBase" \in DOMAIN s THEN s.amountBase
    ELSE IF "amount" \in DOMAIN s THEN s.amount ELSE 0

\* the entries of renderHistoryChunk(sales, operator)
renderHistoryChunk(list) ==
    [i \in 1..Len(list) |->
        [name |-> list[i].name, payment |-> list[i].payment, net |-> netOf(list[i]),
         txn |-> list[i].transactionId]]

\* no operator chosen: operatorId: null
AllOperators == ""

\* buildReportRows({ sinceMs, company, operatorId })
buildReportRows(list, company, operatorId) ==
    LET ofCompany == SelectSeq(getSalesSince(list), LAMBDA s : s.company = company)
        filtered  == IF operatorId # AllOperators
                     THEN SelectSeq(ofCompany, LAMBDA s : s.operatorId = operatorId)
                     ELSE ofCompany
    IN  [i \in 1..Len(filtered) |->
            [salesPerson |-> filtered[i].operator, value |-> netOf(filtered[i]),
             method |-> filtered[i].payment, txnId |-> filtered[i].transactionId,
             name |-> filtered[i].name]]

\* rows.reduce((sum,r)=> sum + (Number(r.value)||0), 0)
RECURSIVE subtotalOf(_)
subtotalOf(rows) ==
    IF rows = <<>> THEN 0
    ELSE subtotalOf(SubSeq(rows, 1, Len(rows) - 1)) + rows[Len(rows)].value

\* sendReportToAdmin(ctx, rows, label) up to its first await: the reply that
\* there are no sales, or the table (and then the CSV) for ADMIN_CHAT_ID
sendReportToAdmin(uid, rows) ==
    IF rows = <<>> THEN [fn |-> "reply", by |-> uid, rows |-> <<>>, total |-> 0]
    ELSE [fn |-> "report", by |-> uid, rows |-> rows, total |-> subtotalOf(rows)]

\* nothing listed yet
NoListing == [fn |-> "none", by |-> "", rows |-> <<>>, total |-> 0]

\* the admin has opened /report and chosen Lunar
ChosenSession(u) == [ReportSession(u) EXCEPT !.awaiting = "rep_scope", !.company = "Lunar"]

\* DB after loadDB(); the admin is outside a report or has chosen a company
InitReport ==
    /\ now = WrapStart
    /\ AllocInitFresh
    /\ ticks = 0
    /\ calls = 0
    /\ lastCall = NoCall
    /\ lastReset = NoReset
    /\ args = NoArgs
    /\ result = NoListing
    /\ users = ("u1" :> [nickname |-> "Al", company |-> "Lunar"])
            @@ ("u2" :> [nickname |-> "Bo", company |-> "Lunar"])
    /\ \/ sessions = <<>> /\ stepState = ("u1" :> NoSession) @@ ("u2" :> NoSession)
       \/ sessions = <<ChosenSession("u1")>> /\ stepState = ("u1" :> 1) @@ ("u2" :> NoSession)
    /\ tasks = {}
    /\ started = 0
    /\ sales \in SalesLists

\* bot.command('report') up to await ctx.reply: an operator who is not an
\* admin, or a missing or unreachable ADMIN_CHAT_ID, ends it with a reply
ReportCommand(u, chatOk) ==
    /\ started < MaxUpdates
    /\ CanSuspend
    /\ started' = started + 1
    /\ tasks' = IF IsAdmin(u) /\ chatOk THEN tasks \cup {Task(u, "report", "reply", NoSession)}
                ELSE tasks
    /\ UNCHANGED <<allocVars, codecVars, users, stepState, sessions, sales>>

\* the prompt of /report is sent: stepState[uid]={ mode:'report', ... }
ReportStore(t) ==
    /\ t.handler = "report" /\ t.pc = "reply"
    /\ sessions' = Append(sessions, ReportSession(t.uid))
    /\ stepState' = [stepState EXCEPT ![t.uid] = Len(sessions) + 1]
    /\ tasks' = Return(t)
    /\ UNCHANGED <<allocVars, codecVars, users, started, sales>>

\* bot.action(/^rep_company_(Lunar|Wave|Ion|101)$/) up to await ctx.reply
RepCompany(u, company) ==
    /\ started < MaxUpdates
    /\ CanSuspend
    /\ started' = started + 1
    /\ IF IsAdmin(u) /\ InReport(u)
       THEN /\ sessions' = [sessions EXCEPT ![stepState[u]].company = company]
            /\ tasks' = tasks \cup {Task(u, "rep_company", "reply", stepState[u])}
       ELSE UNCHANGED <<sessions, tasks>>
    /\ UNCHANGED <<allocVars, codecVars, users, stepState, sales>>

\* bot.action(/^rep_scope_(ME|ALL)$/) up to its first await: ALL builds the
\* rows and starts sending; ME asks for an operator of the company, or finds
\* none
RepScope(u, scope) ==
    /\ started < MaxUpdates
    /\ CanSuspend
    /\ started' = started + 1
    /\ IF IsAdmin(u) /\ InReport(u)
       THEN LET sid == stepState[u]
                ops == {id \in DOMAIN users : users[id].company = sessions[sid].company}
            IN  /\ sessions' = [sessions EXCEPT ![sid].scope = scope]
                /\ result' = IF scope = "ALL"
                             THEN sendReportToAdmin(u,
                                      buildReportRows(sales, sessions[sid].company, AllOperators))
                             ELSE result
                /\ tasks' = tasks \cup
                      {Task(u, "rep_scope",
                            IF scope = "ALL" \/ ops = {} THEN "tryDelete" ELSE "reply", sid)}
       ELSE UNCHANGED <<sessions, result, tasks>>
    /\ UNCHANGED <<allocVars, args, users, stepState, sales>>

\* bot.action('rep_scope_back') up to await ctx.reply; ADMIN_IDS is not looked
\* at
RepScopeBack(u) ==
    /\ started < MaxUpdates
    /\ CanSuspend
    /\ started' = started + 1
    /\ tasks' = IF InReport(u) THEN tasks \cup {Task(u, "rep_scope_back", "reply", stepState[u])}
                ELSE tasks
    /\ UNCHANGED <<allocVars, codecVars, users, stepState, sessions, sales>>

\* the prompt of rep_company, rep_scope_ME or rep_scope_back is sent:
\* s.awaiting='rep_scope' or 'rep_operator' on the session the handler holds
RepPrompted(t) ==
    /\ t.handler \in {"rep_company", "rep_scope", "rep_scope_back"} /\ t.pc = "reply"
    /\ sessions' = [sessions EXCEPT ![t.s].awaiting =
                       IF t.handler = "rep_scope" THEN "rep_operator" ELSE "rep_scope"]
    /\ tasks' = Return(t)
    /\ UNCHANGED <<allocVars, codecVars, users, stepState, started, sales>>

\* bot.action(/^rep_op_(\d+)$/) up to the first await of sendReportToAdmin
RepOp(u, targetId) ==
    /\ started < MaxUpdates
    /\ CanSuspend
    /\ started' = started + 1
    /\ IF IsAdmin(u) /\ InReport(u)
       THEN /\ result' = sendReportToAdmin(u,
                            buildReportRows(sales, sessions[stepState[u]].company, targetId))
            /\ tasks' = tasks \cup {Task(u, "rep_op", "tryDelete", stepState[u])}
       ELSE UNCHANGED <<result, tasks>>
    /\ UNCHANGED <<allocVars, args, users, stepState, sessions, sales>>

\* bot.action('rep_cancel') up to await tryDelete; ADMIN_IDS is not looked at
RepCancel(u) ==
    /\ started < MaxUpdates
    /\ CanSuspend
    /\ started' = started + 1
    /\ tasks' = IF InReport(u) THEN tasks \cup {Task(u, "rep_cancel", "tryDelete", stepState[u])}
                ELSE tasks
    /\ UNCHANGED <<allocVars, codecVars, users, stepState, sessions, sales>>

\* delete stepState[uid] at the end of rep_scope, rep_op and rep_cancel,
\* whatever session is stored there by now
RepDelete(t) ==
    /\ t.handler \in {"rep_scope", "rep_op", "rep_cancel"} /\ t.pc = "tryDelete"
    /\ stepState' = [stepState EXCEPT ![t.uid] = NoSession]
    /\ tasks' = Return(t)
    /\ UNCHANGED <<allocVars, codecVars, users, sessions, started, sales>>

\* bot.action('hist_qr' | 'hist_cash' | 'hist_all')
HistShow(u, payment) ==
    /\ started < MaxUpdates
    /\ started' = started + 1
    /\ result' = [fn |-> "history", by |-> u, payment |-> payment,
                  rows |-> renderHistoryChunk(filterMySales(sales, u, payment))]
    /\ UNCHANGED <<allocVars, args, users, stepState, sessions, tasks, sales>>

NextReport ==
    \/ \E u \in Users, chatOk \in BOOLEAN : ReportCommand(u, chatOk)
    \/ \E u \in Users, company \in {"Lunar", "Wave"} : RepCompany(u, company)
    \/ \E u \in Users, scope \in {"ME", "ALL"} : RepScope(u, scope)
    \/ \E u \in Users : RepScopeBack(u)
    \/ \E u \in Users, targetId \in Users : RepOp(u, targetId)
    \/ \E u \in Users : RepCancel(u)
    \/ \E u \in Users, payment \in {"QR Code", "Cash", "ALL"} : HistShow(u, payment)
    \/ \E t \in tasks : ReportStore(t)
    \/ \E t \in tasks : RepPrompted(t)
    \/ \E t \in tasks : RepDelete(t)

SpecReport == InitReport /\ [][NextReport]_vars

-----------------------------------------------------------------------------
(* First run: /start, /sale, the nickname text, the company buttons, and    *)
(* the sale of an operator, for one user who may or may not have a nickname *)
(* and a company yet                                                        *)

\* company_(Lunar|Wave|Ion|101)
CompanyButtons == {"Lunar", "Wave", "Ion", "101"}

\* ctx.message.text.trim() of the texts a user sends: a name, a whole number,
\* and a text that is empty after trim()
FirstRunTexts == {"Al", "250", ""}

\* a sale session whose Name/Table button has been pressed
NamingSession(u) == [SaleSession(u) EXCEPT !.awaiting = "name", !.expiryTimer = TRUE]

\* DB.users[uid] and stepState[uid] of the user: unknown, asked for the
\* nickname, asked for the company, registered without a session, registered
\* with a sale session that waits for the name, or with a filled one
FirstRunStates ==
    {[user |-> [nickname |-> "", company |-> ""], session |-> <<>>],
     [user |-> [nickname |-> "", company |-> ""],
      session |-> <<PromptSession("u1", "nickname", "nick")>>],
     [user |-> [nickname |-> "Al", company |-> ""],
      session |-> <<PromptSession("u1", "company", "company")>>],
     [user |-> [nickname |-> "Al", company |-> "Wave"], session |-> <<>>],
     [user |-> [nickname |-> "Al", company |-> "Ion"], session |-> <<NamingSession("u1")>>],
     [user |-> [nickname |-> "Al", company |-> "Lunar"],
      session |-> <<FilledSession("u1", "QR Code")>>],
     [user |-> [nickname |-> "Al", company |-> "101"],
      session |-> <<FilledSession("u1", "Cash")>>]}

InitFirstRun ==
    /\ now = WrapStart
    /\ AllocInitFresh
    /\ ticks = 0
    /\ calls = 0
    /\ lastCall = NoCall
    /\ lastReset = NoReset
    /\ CodecIdle
    /\ \E st \in FirstRunStates :
          /\ users = ("u1" :> st.user)
          /\ sessions = st.session
          /\ stepState = ("u1" :> Len(st.session))
    /\ tasks = {}
    /\ started = 0
    /\ sales = <<>>

\* bot.start up to await ctx.reply: a registered operator is welcomed back,
\* any other is asked for the nickname or the company
StartCommand(u) ==
    /\ started < MaxUpdates
    /\ CanSuspend
    /\ started' = started + 1
    /\ tasks' = IF users[u].nickname # "" /\ users[u].company # "" THEN tasks
                ELSE tasks \cup {Task(u, "start",
                                      IF users[u].nickname = "" THEN "askNickname"
                                      ELSE "askCompany", NoSession)}
    /\ UNCHANGED <<allocVars, codecVars, users, stepState, sessions, sales>>

\* the question of /start or /sale is sent:
\* stepState[uid]={mode:'nickname', ...} or {mode:'company', ...}
PromptStore(t) ==
    /\ t.handler \in {"start", "sale"} /\ t.pc \in {"askNickname", "askCompany"}
    /\ sessions' = Append(sessions,
                          IF t.pc = "askNickname" THEN PromptSession(t.uid, "nickname", "nick")
                          ELSE PromptSession(t.uid, "company", "company"))
    /\ stepState' = [stepState EXCEPT ![t.uid] = Len(sessions) + 1]
    /\ tasks' = Return(t)
    /\ UNCHANGED <<allocVars, codecVars, users, started, sales>>

\* Number(msg) of a text of decimal digits, and MIN_AMOUNT for a text that
\* is no number or a number below MIN_AMOUNT
amountOfText(msg) ==
    IF msg # "" /\ (\A i \in 1..Len(msg) : isDigit(SubSeq(msg, i, i)))
                /\ DecimalValue(msg) >= MIN_AMOUNT
    THEN DecimalValue(msg) ELSE MIN_AMOUNT

\* bot.on('text') up to its first await: the nickname of a first run, or the
\* name or the amount a sale session waits for; any other text goes to next()
ReceiveText(u, msg) ==
    LET sid == stepState[u]
        s   == sessions[sid]
    IN  /\ started < MaxUpdates
        /\ CanSuspend
        /\ started' = started + 1
        /\ IF sid = NoSession THEN UNCHANGED <<users, sessions, tasks>>
           ELSE IF s.mode = "nickname" /\ s.awaiting = "nick"
           THEN /\ users' = [users EXCEPT ![u].nickname = msg]
                /\ tasks' = tasks \cup {Task(u, "text", "nickname", sid)}
                /\ UNCHANGED sessions
           ELSE IF s.mode = "sale" /\ s.awaiting = "name"
           THEN /\ sessions' = [sessions EXCEPT ![sid].name = msg]
                /\ tasks' = tasks \cup {Task(u, "text", "tryDelete", sid)}
                /\ UNCHANGED users
           ELSE IF s.mode = "sale" /\ s.awaiting = "amount"
           THEN /\ sessions' = [sessions EXCEPT ![sid].amount = amountOfText(msg)]
                /\ tasks' = tasks \cup {Task(u, "text", "tryDelete", sid)}
                /\ UNCHANGED users
           ELSE UNCHANGED <<users, sessions, tasks>>
        /\ UNCHANGED <<allocVars, codecVars, stepState, sales>>

\* the text handler goes on, on the session it holds: s.mode='company';
\* s.awaiting='company' after the company keyboard is sent; s.awaiting=null
\* before the overview; touch(ctx,s) after it
TextContinue(t) ==
    /\ t.handler = "text"
    /\ CASE t.pc = "nickname" ->
              /\ sessions' = [sessions EXCEPT ![t.s].mode = "company",
                                              ![t.s].awaiting = "company"]
              /\ tasks' = Return(t)
         [] t.pc = "tryDelete" ->
              /\ sessions' = [sessions EXCEPT ![t.s].awaiting = ""]
              /\ tasks' = Resume(t, "overview")
         [] t.pc = "overview" ->
              /\ sessions' = touch(sessions, t.s)
              /\ tasks' = Return(t)
    /\ UNCHANGED <<allocVars, codecVars, users, stepState, started, sales>>

\* bot.action(/^company_(Lunar|Wave|Ion|101)$/) up to await saveDB()
CompanyPick(u, company) ==
    /\ started < MaxUpdates
    /\ CanSuspend
    /\ started' = started + 1
    /\ users' = [users EXCEPT ![u].company = company]
    /\ tasks' = tasks \cup {Task(u, "company", "saveDB", stepState[u])}
    /\ UNCHANGED <<allocVars, codecVars, stepState, sessions, sales>>

\* saveDB() settles: delete stepState[uid], whatever session is stored there
CompanyDelete(t) ==
    /\ t.handler = "company" /\ t.pc = "saveDB"
    /\ stepState' = [stepState EXCEPT ![t.uid] = NoSession]
    /\ tasks' = Return(t)
    /\ UNCHANGED <<allocVars, codecVars, users, sessions, started, sales>>

NextFirstRun ==
    \/ StartCommand("u1")
    \/ SaleCommand("u1")
    \/ \E msg \in FirstRunTexts : ReceiveText("u1", msg)
    \/ \E company \in CompanyButtons : CompanyPick("u1", company)
    \/ QrAllocate("u1")
    \/ CashAllocate("u1")
    \/ \E t \in tasks : PromptStore(t)
    \/ \E t \in tasks : SaleShowOverview(t)
    \/ \E t \in tasks : SaleArmTimer(t)
    \/ \E t \in tasks : TextContinue(t)
    \/ \E t \in tasks : CompanyDelete(t)
    \/ \E t \in tasks, ok \in BOOLEAN : QrRecord(t, ok)
    \/ \E t \in tasks, ok \in BOOLEAN : CashRecord(t, ok)
    \/ \E t \in tasks, ok \in BOOLEAN : FinalClearTimer(t, ok)
    \/ \E t \in tasks : DeleteStepState(t)

SpecFirstRun == InitFirstRun /\ [][NextFirstRun]_vars

-----------------------------------------------------------------------------
(* Editing a sale: the Payment and Amount actions, the Clear button and the *)
(* typed custom amount of one operator, together with both finalising       *)
(* handlers. Every handler answers the callback query first; its action     *)
(* below starts where that await has settled                                *)

\* function canGenerateQR(s), with (f.amount??0) held as 0 when unset
canGenerateQR(s) == s.name # "" /\ s.payment = "QR Code" /\ s.amount >= MIN_AMOUNT

\* the digits a callback amt_<digits> carries: two buttons of the amount
\* keyboard and an amount below the minimum that no button offers
AmtDigits == {"100", "300", "50"}

\* the texts an operator types while the session waits for a custom amount
AmountTexts == {"99", "250", "x"}

\* the amount taken from the callback as it was pressed
amtValue_unclamped(digits) == DecimalValue(digits)

\* Math.max(Number(ctx.match[1]), MIN_AMOUNT)
amtValue(digits) == Max(DecimalValue(digits), MIN_AMOUNT)

\* the session of an operator in the middle of a sale: name and payment
\* chosen and no amount yet, the same after Custom was pressed, or filled in
EditStates ==
    UNION {{[FilledSession("u1", payment) EXCEPT !.amount = 0],
            [FilledSession("u1", payment) EXCEPT !.amount = 0, !.awaiting = "amount"],
            FilledSession("u1", payment)} : payment \in {"QR Code", "Cash"}}

InitEdit ==
    /\ now = WrapStart
    /\ AllocInitFresh
    /\ ticks = 0
    /\ calls = 0
    /\ lastCall = NoCall
    /\ lastReset = NoReset
    /\ CodecIdle
    /\ users = ("u1" :> [nickname |-> "Al", company |-> "Lunar"])
    /\ \E s \in EditStates : sessions = <<s>>
    /\ stepState = ("u1" :> 1)
    /\ tasks = {}
    /\ started = 0
    /\ sales = <<>>

\* bot.action('sale_pay_qr') and bot.action('sale_pay_cash') up to
\* await tryDelete(ctx,s.promptMsgId)
PaySet(u, payment) ==
    /\ started < MaxUpdates
    /\ CanSuspend
    /\ started' = started + 1
    /\ IF InSale(u)
       THEN /\ sessions' = [sessions EXCEPT ![stepState[u]].payment = payment]
            /\ tasks' = tasks \cup {Task(u, "sale_pay", "overview", stepState[u])}
       ELSE UNCHANGED <<sessions, tasks>>
    /\ UNCHANGED <<allocVars, codecVars, users, stepState, sales>>

\* bot.action(/^amt_(\d+)$/) up to await tryDelete(ctx,s.promptMsgId)
AmtPreset(u, digits) ==
    /\ started < MaxUpdates
    /\ CanSuspend
    /\ started' = started + 1
    /\ IF InSale(u)
       THEN /\ sessions' = [sessions EXCEPT ![stepState[u]].amount = amtValue(digits)]
            /\ tasks' = tasks \cup {Task(u, "amt", "overview", stepState[u])}
       ELSE UNCHANGED <<sessions, tasks>>
    /\ UNCHANGED <<allocVars, codecVars, users, stepState, sales>>

\* bot.action('sale_amount_clear') up to await saleShowOverview(ctx,s)
AmountClear(u) ==
    /\ started < MaxUpdates
    /\ CanSuspend
    /\ started' = started + 1
    /\ IF InSale(u)
       THEN /\ sessions' = [sessions EXCEPT ![stepState[u]].amount = 0]
            /\ tasks' = tasks \cup {Task(u, "sale_amount_clear", "overview", stepState[u])}
       ELSE UNCHANGED <<sessions, tasks>>
    /\ UNCHANGED <<allocVars, codecVars, users, stepState, sales>>

\* tryDelete and saleShowOverview settle: touch(ctx,s) on the session the
\* handler holds
EditTouch(t) ==
    /\ t.handler \in {"sale_pay", "amt", "sale_amount_clear"} /\ t.pc = "overview"
    /\ sessions' = touch(sessions, t.s)
    /\ tasks' = Return(t)
    /\ UNCHANGED <<allocVars, codecVars, users, stepState, started, sales>>

\* bot.action('amt_custom') up to await ctx.reply('Custom Amount ...')
AmtCustom(u) ==
    /\ started < MaxUpdates
    /\ CanSuspend
    /\ started' = started + 1
    /\ tasks' = IF InSale(u) THEN tasks \cup {Task(u, "amt_custom", "reply", stepState[u])}
                ELSE tasks
    /\ UNCHANGED <<allocVars, codecVars, users, stepState, sessions, sales>>

\* the prompt is sent: s.promptMsgId=m.message_id; s.awaiting='amount';
\* touch(ctx,s)
AmtCustomPrompted(t) ==
    /\ t.handler = "amt_custom" /\ t.pc = "reply"
    /\ sessions' = touch([sessions EXCEPT ![t.s].awaiting = "amount"], t.s)
    /\ tasks' = Return(t)
    /\ UNCHANGED <<allocVars, codecVars, users, stepState, started, sales>>

NextEdit ==
    \/ \E payment \in {"QR Code", "Cash"} : PaySet("u1", payment)
    \/ \E digits \in AmtDigits : AmtPreset("u1", digits)
    \/ AmountClear("u1")
    \/ AmtCustom("u1")
    \/ \E msg \in AmountTexts : ReceiveText("u1", msg)
    \/ QrAllocate("u1")
    \/ CashAllocate("u1")
    \/ \E t \in tasks : EditTouch(t)
    \/ \E t \in tasks : AmtCustomPrompted(t)
    \/ \E t \in tasks : TextContinue(t)
    \/ \E t \in tasks, ok \in BOOLEAN : QrRecord(t, ok)
    \/ \E t \in tasks, ok \in BOOLEAN : CashRecord(t, ok)
    \/ \E t \in tasks, ok \in BOOLEAN : FinalClearTimer(t, ok)
    \/ \E t \in tasks : DeleteStepState(t)

SpecEdit == InitEdit /\ [][NextEdit]_vars

-----------------------------------------------------------------------------
(* Time on a line, to say which instants lie between the same two noons *)

RECURSIVE DaysBeforeYear(_)
DaysBeforeYear(y) ==
    IF y <= 2000 THEN 0
    ELSE DaysBeforeYear(y - 1) + (IF IsLeap(y - 1) THEN 366 ELSE 365)

RECURSIVE DaysBeforeMonth(_, _)
DaysBeforeMonth(y, m) ==
    IF m <= 1 THEN 0 ELSE DaysBeforeMonth(y, m - 1) + DaysInMonth(y, m - 1)

\* hours since 2000-01-01 00h
AbsHour(t) == 24 * (DaysBeforeYear(t.y) + DaysBeforeMonth(t.y, t.m) + (t.d - 1)) + t.h

\* the number of the noon-to-noon window an instant lies in
NoonWindow(t) == (AbsHour(t) - 12) \div 24

SameDay(a, b) == a.y = b.y /\ a.m = b.m /\ a.d = b.d

\* the four companies of the bot, as counter buckets
KnownKeys == {"Lunar", "Wave", "Ion", "101"}

CounterKeys == DOMAIN counters \ {"date"}

-----------------------------------------------------------------------------
(* Claims about the allocator, checked under SpecAlloc *)

\* C1 as stated: no two nextTxnId calls made under one reset key return the
\* same id, whatever the companies and however many the calls.
C1_UniqueAlways == \A id \in DOMAIN issued : issued[id] = 1

\* C1 as amended: under one reset key, the ids returned for Lunar, Wave, Ion
\* and 101 (in any letter case) are returned once each, as long as the company
\* was allocated at most 999 times under that key.
C1_UniqueUpToWrap ==
    \A k \in KnownKeys \cap DOMAIN returned :
        Len(returned[k]) <= 999 =>
            \A i \in DOMAIN returned[k] : issued[returned[k][i]] = 1

\* 999 ids of one company and an id of another, all under one reset key
C1_Witness ==
    /\ "Lunar" \in DOMAIN returned /\ Len(returned["Lunar"]) = 999
    /\ "Wave" \in DOMAIN returned
    /\ lastCall.company = "lunar"

\* C3: a call that finds a reset key other than the stored one adopts the new
\* key and zeroes every company's counter before its increment, so it returns
\* counter 1 and leaves every other counter 0; hence the first id any company
\* gets after a reset carries 001.
C3_ResetAllCompanies ==
    /\ (lastCall.n > 0 /\ lastCall.before["date"] # resetKeyNoon(lastCall.at)) =>
          /\ counters["date"] = resetKeyNoon(lastCall.at)
          /\ counters[lastCall.key] = 1
          /\ idCounter(lastCall.id) = 1
          /\ \A k \in CounterKeys \ {lastCall.key} : counters[k] = 0
          /\ KnownKeys \subseteq CounterKeys
    /\ \A k \in DOMAIN returned : sliceFrom(returned[k][1], 1) = "001"

\* a reset by one company that zeroed the counter of another, and that other
\* company's first id after it
C3_Witness ==
    /\ lastReset.n > 0
    /\ lastCall.key # lastReset.by
    /\ lastCall.key \in KnownKeys
    /\ lastReset.before[lastCall.key] > 1
    /\ ~lastCall.reset
    /\ sliceFrom(lastCall.id, 1) = "001"

\* C4: the key of an instant is the date of the day before for an hour
\* before 12 and the date of the day itself from 12 on, written
\* yyyy-mm-dd-noon; two instants have the same key exactly when they lie in
\* the same noon-to-noon window.
C4_NoonWindowKey ==
    LET k == resetKeyNoon(now)
        D == noonDate(now)
    IN  /\ IF now.h < 12 THEN SameDay(NextDay(D), now) ELSE SameDay(D, now)
        /\ Len(k) = 15
        /\ DecimalValue(slice(k, 0, 4)) = D.y
        /\ DecimalValue(slice(k, 5, 7)) = D.m
        /\ DecimalValue(slice(k, 8, 10)) = D.d
        /\ charAt(k, 4) = "-" /\ charAt(k, 7) = "-" /\ sliceFrom(k, 10) = "-noon"
        /\ lastCall.n > 0 =>
              ((k = resetKeyNoon(lastCall.at)) <=> (NoonWindow(now) = NoonWindow(lastCall.at)))

\* a morning of the first of a month, in the window of a call of the evening
\* before
C4_Witness ==
    /\ lastCall.n > 0
    /\ now.h < 12 /\ now.d = 1
    /\ ~SameDay(now, lastCall.at)
    /\ resetKeyNoon(now) = resetKeyNoon(lastCall.at)

\* C5: under one reset key the i-th id of a company carries counter
\* ((i-1) mod 999) + 1: 1, 2, ..., 999, 1, 2, ... and never 0.
C5_Wraparound ==
    \A k \in DOMAIN returned :
        \A i \in DOMAIN returned[k] :
            LET n == idCounter(returned[k][i]) IN
            /\ n = ((i - 1) % 999) + 1
            /\ n # 0
            /\ (i > 1 /\ sliceFrom(returned[k][i - 1], 1) = "999") => n = 1

\* the allocation after the one that returned 999
C5_Witness ==
    \E k \in DOMAIN returned :
        /\ Len(returned[k]) = 1000
        /\ idCounter(returned[k][999]) = 999
        /\ idCounter(returned[k][1000]) = 1

\* C6: every stored counter is in 0..999, and a counter is 0 only if its
\* company was not allocated since the last reset.
C6_CounterRange ==
    \A k \in CounterKeys :
        /\ counters[k] \in 0..999
        /\ counters[k] = 0 => k \notin DOMAIN returned

\* a counter at 999, and a reset that took a counter from 999 back to 0
C6_Witness ==
    /\ lastCall.n > 0 /\ lastCall.reset
    /\ lastCall.before["Lunar"] = 999
    /\ counters["Lunar"] = 0

\* the prefix the claim's table gives, read literally
PrefixExact(company) ==
    CASE company = "Lunar" -> "L"
      [] company = "Wave"  -> "W"
      [] company = "Ion"   -> "I"
      [] company = "101"   -> "1"
      [] OTHER             -> "X"

\* the claim's table with the company names compared ignoring letter case
PrefixIgnoringCase(company) == PrefixExact(counterKey(company))

ThreeDigits(s) == Len(s) = 3 /\ \A i \in 0..2 : isDigit(charAt(s, i))

\* C7 as stated: the id is 4 characters, the prefix of the table (Lunar->L,
\* Wave->W, Ion->I, 101->1, anything else->X) and the company's stored
\* counter in 3 digits.
C7_IdFormatExact ==
    lastCall.n > 0 =>
        /\ Len(lastCall.id) = 4
        /\ charAt(lastCall.id, 0) = PrefixExact(lastCall.company)
        /\ ThreeDigits(sliceFrom(lastCall.id, 1))
        /\ idCounter(lastCall.id) = counters[lastCall.key]

\* C7 as amended: the same, with the company names of the table matched
\* ignoring letter case (lunar->L as Lunar->L).
C7_IdFormat ==
    lastCall.n > 0 =>
        /\ Len(lastCall.id) = 4
        /\ charAt(lastCall.id, 0) = PrefixIgnoringCase(lastCall.company)
        /\ ThreeDigits(sliceFrom(lastCall.id, 1))
        /\ idCounter(lastCall.id) = counters[lastCall.key]
        /\ lastCall.key \in CounterKeys

\* an id of the empty company, after ids of known companies
C7_Witness ==
    /\ lastCall.n > 1
    /\ lastCall.company = ""
    /\ lastCall.id = "X001"
    /\ "Lunar" \in DOMAIN returned


-----------------------------------------------------------------------------
(* Claims about the pure helpers *)

UpperHexDigits == "0123456789ABCDEF"

isUpperHex(ch) == IndexIn(ch, UpperHexDigits) > 0

AllUpperHex(s) == \A i \in 1..Len(s) : isUpperHex(SubSeq(s, i, i))

IsPrefixOf(r, full) ==
    /\ Len(r) <= Len(full)
    /\ \A i \in 1..Len(r) : SubSeq(r, i, i) = SubSeq(full, i, i)

\* the string buildReference composes before clipping
ReferenceText == args.txnId \o " - " \o args.operator \o " - " \o args.name

\* C8: buildReference returns the first min(25, L) characters of
\* "<txnId> - <operator> - <name>" (length L): at most 25 characters, a prefix
\* with nothing appended, and the whole string when L <= 25.
C8_ReferenceClip ==
    (args.fn = "buildReference" /\ result.ok) =>
        /\ Len(result.value) = Min(25, Len(ReferenceText))
        /\ Len(result.value) <= 25
        /\ IsPrefixOf(result.value, ReferenceText)
        /\ (Len(ReferenceText) <= 25 => result.value = ReferenceText)

\* C8 witness: a composed string longer than 25 characters was clipped to 25
C8_Witness ==
    /\ args.fn = "buildReference"
    /\ result.ok
    /\ Len(ReferenceText) > 25
    /\ Len(result.value) = 25
    /\ result.value # ReferenceText

\* C9: every payload buildPayNowPayload returns ends with "63" "04" and four
\* uppercase hex digits H, and crc16ccitt of the payload without its last
\* four characters equals H.
C9_ChecksumSelfConsistent ==
    (args.fn = "buildPayNowPayload" /\ result.ok) =>
        LET P == result.value
            n == Len(P)
            H == SubSeq(P, n - 3, n)
        IN  /\ n >= 8
            /\ SubSeq(P, n - 7, n - 4) = "63" \o "04"
            /\ Len(H) = 4
            /\ AllUpperHex(H)
            /\ crc16ccitt(CharCodes(SubSeq(P, 1, n - 4))) = H

\* C9 witness: a payload was returned whose checksum needs the zero padding
C9_Witness ==
    /\ args.fn = "buildPayNowPayload"
    /\ result.ok
    /\ Len(result.value) > 8
    /\ SubSeq(result.value, Len(result.value) - 3, Len(result.value) - 3) = "0"

\* CRC16/CCITT-FALSE as a bit-serial shift register over bits, most
\* significant bit first: polynomial x^16 + x^12 + x^5 + 1
RefPoly == <<0,0,0,1, 0,0,0,0, 0,0,1,0, 0,0,0,1>>
RefInit == <<1,1,1,1, 1,1,1,1, 1,1,1,1, 1,1,1,1>>

RefBit(u, k) == (u \div (2 ^ (8 - k))) % 2

RefBits8(u) ==
    <<RefBit(u, 1), RefBit(u, 2), RefBit(u, 3), RefBit(u, 4),
      RefBit(u, 5), RefBit(u, 6), RefBit(u, 7), RefBit(u, 8)>>

RefShiftIn(reg, bit) ==
    LET fb   == (reg[1] + bit) % 2
        b(k) == ((IF k < 16 THEN reg[k + 1] ELSE 0) + fb * RefPoly[k]) % 2
    IN  <<b(1), b(2), b(3), b(4), b(5), b(6), b(7), b(8),
          b(9), b(10), b(11), b(12), b(13), b(14), b(15), b(16)>>

RefShiftIn8(reg, bits) ==
    RefShiftIn(RefShiftIn(RefShiftIn(RefShiftIn(RefShiftIn(RefShiftIn(RefShiftIn(
        RefShiftIn(reg, bits[1]), bits[2]), bits[3]), bits[4]), bits[5]), bits[6]),
        bits[7]), bits[8])

RECURSIVE RefRegister(_, _, _)
RefRegister(reg, units, i) ==
    IF i > Len(units) THEN reg
    ELSE LET next == RefShiftIn8(reg, RefBits8(units[i]))
         IN  CASE Len(next) = 16 -> RefRegister(next, units, i + 1)

RefNibble(reg, j) ==
    LET v == 8 * reg[4 * j - 3] + 4 * reg[4 * j - 2] + 2 * reg[4 * j - 1] + reg[4 * j]
    IN  SubSeq(UpperHexDigits, v + 1, v + 1)

RefCrc(units) ==
    LET reg == RefRegister(RefInit, units, 1)
    IN  RefNibble(reg, 1) \o RefNibble(reg, 2) \o RefNibble(reg, 3) \o RefNibble(reg, 4)

\* a shift step without the mask: the register keeps the bits shifted out
crcShift_unmasked(crc) ==
    IF (crc \div 32768) % 2 = 1 THEN Xor(crc * 2, 4129) ELSE crc * 2

\* the loop of crc16ccitt with the register masked once per character
crcUnit_maskPerChar(crc, unit) ==
    crcShift_unmasked(crcShift_unmasked(crcShift_unmasked(crcShift_unmasked(
    crcShift_unmasked(crcShift_unmasked(crcShift_unmasked(crcShift_unmasked(
        Xor(crc, unit * 256))))))))) % 65536

RECURSIVE crcLoop_maskPerChar(_, _, _)
crcLoop_maskPerChar(crc, units, i) ==
    IF i > Len(units) THEN crc
    ELSE LET next == crcUnit_maskPerChar(crc, units[i])
         IN  CASE next \in 0..65535 -> crcLoop_maskPerChar(next, units, i + 1)

\* C10: crc16ccitt equals the CRC16/CCITT-FALSE reference on every string of
\* 8-bit code units, as exactly four uppercase hex digits; "123456789" gives
\* "29B1" and the empty string "FFFF"; masking once per character gives the
\* same result as masking after every shift.
C10_CrcIsCcittFalse ==
    (args.fn = "crc16ccitt" /\ result.ok) =>
        /\ result.value = RefCrc(args.units)
        /\ Len(result.value) = 4
        /\ AllUpperHex(result.value)
        /\ (args.units = CharCodes(CheckString) => result.value = "29B1")
        /\ (args.units = <<>> => result.value = "FFFF")
        /\ result.value = crcHex(crcLoop_maskPerChar(65535, args.units, 1))

\* C10 witness: the check string was summed to "29B1"
C10_Witness ==
    /\ args.fn = "crc16ccitt"
    /\ result.ok
    /\ args.units = CharCodes(CheckString)
    /\ result.value = "29B1"

AllDigits(s) == \A i \in 1..Len(s) : isDigit(SubSeq(s, i, i))

\* the ways text reads back as a row of fields carrying the given tags and
\* nothing else, each field being its tag, the length of its value in decimal
\* (two digits, or three for a length from 100) and the value: the set of the
\* rows of values
RECURSIVE FieldValues(_, _)
FieldValues(text, tags) ==
    IF tags = <<>> THEN (IF text = "" THEN {<<>>} ELSE {})
    ELSE LET Read(w) ==
                 IF /\ Len(text) >= 2 + w
                    /\ SubSeq(text, 1, 2) = Head(tags)
                    /\ AllDigits(SubSeq(text, 3, 2 + w))
                    /\ (w = 3 => SubSeq(text, 3, 3) # "0")
                 THEN LET n == DecimalValue(SubSeq(text, 3, 2 + w))
                      IN  IF Len(text) >= 2 + w + n
                          THEN {<<SubSeq(text, 3 + w, 2 + w + n)>> \o rest :
                                  rest \in FieldValues(SubSeq(text, 3 + w + n, Len(text)),
                                                       Tail(tags))}
                          ELSE {}
                 ELSE {}
         IN  Read(2) \cup Read(3)

\* the tags the specification lists, and the tags with the merchant category
\* code
TagsListed == <<"00", "01", "26", "53", "54", "58", "59", "60", "62", "63">>
TagsWithCategory == <<"00", "01", "26", "52", "53", "54", "58", "59", "60", "62", "63">>

\* C11 as stated: a returned payload is the fields 00, 01, 26, 53 ("702"),
\* 54, 58 ("SG"), 59, 60, 62 (holding subfield 01) in this order, then the
\* checksum field 63, and nothing else.
C11_OrderAsListed ==
    (args.fn = "buildPayNowPayload" /\ result.ok) =>
        \E v \in FieldValues(result.value, TagsListed) :
            /\ v[1] = "01" /\ v[2] = "12" /\ v[4] = "702" /\ v[6] = "SG"
            /\ FieldValues(v[9], <<"01">>) # {}
            /\ Len(v[10]) = 4

\* C11: a returned payload is the fields 00 ("01"), 01 ("12"), 26, 52
\* ("0000"), 53 ("702"), 54, 58 ("SG"), 59, 60, 62 (holding the bill
\* reference in subfield 01) in this order, then the checksum field 63 of four
\* characters, and nothing else.
C11_OrderWithCategory ==
    (args.fn = "buildPayNowPayload" /\ result.ok) =>
        \E v \in FieldValues(result.value, TagsWithCategory) :
            /\ v[1] = "01" /\ v[2] = "12" /\ v[4] = "0000" /\ v[5] = "702" /\ v[7] = "SG"
            /\ FieldValues(v[10], <<"01">>) = {<<slice(args.reference, 0, 25)>>}
            /\ Len(v[11]) = 4

\* C11 witness: a payload was returned that reads back with the eleven tags,
\* the city in field 60 and a bill reference in field 62
C11_Witness ==
    /\ args.fn = "buildPayNowPayload"
    /\ result.ok
    /\ \E v \in FieldValues(result.value, TagsWithCategory) :
          /\ v[4] = "0000"
          /\ v[9] = "Singapore"
          /\ v[10] = "0114L001 - Al - T5"


\* C12: tlv applied to a value longer than 99 characters fails and returns no
\* text, and no text tlv returns has a length prefix other than two decimal
\* digits (the text is four characters longer than the value).
C12_FieldTooLong ==
    (args.fn = "tlv" /\ result # NoResult) =>
        /\ Len(args.value) > 99 => (~result.ok /\ result.value = "")
        /\ result.ok => Len(result.value) = Len(args.value) + 4


\* the tags of the subfields of block 26, without and with the expiry
MaiTags == <<"00", "01", "02", "03">>
MaiTagsWithExpiry == <<"00", "01", "02", "03", "04">>

AllWithin99(values) == \A i \in 1..Len(values) : Len(values[i]) <= 99

\* C13: every payload buildPayNowPayload returns reads back as fields whose
\* values have at most 99 characters each: the top-level fields, the whole
\* block 26, the subfields of block 26 and the subfield of field 62.
C13_FieldsWithin99 ==
    (args.fn = "buildPayNowPayload" /\ result.ok) =>
        \E v \in FieldValues(result.value, TagsWithCategory) :
            /\ AllWithin99(v)
            /\ \E m \in FieldValues(v[3], MaiTags) \cup FieldValues(v[3], MaiTagsWithExpiry) :
                  AllWithin99(m)
            /\ \E b \in FieldValues(v[10], <<"01">>) : AllWithin99(b)


\* a number below 100 written as exactly two decimal digits
TwoDigits(n) == digitChar(n \div 10) \o digitChar(n % 10)

\* C14: for a two-character tag and a value of n <= 99 characters, tlv
\* returns the tag, then n as exactly two decimal digits, then the value
\* unchanged: n + 4 characters from which tag, length and value read back.
C14_TlvRoundTrip ==
    (args.fn = "tlv" /\ result.ok /\ Len(args.value) <= 99) =>
        LET t == result.value
            n == Len(args.value)
        IN  /\ Len(args.id) = 2
            /\ Len(t) = n + 4
            /\ SubSeq(t, 1, 2) = args.id
            /\ SubSeq(t, 3, 4) = TwoDigits(n)
            /\ AllDigits(SubSeq(t, 3, 4))
            /\ DecimalValue(SubSeq(t, 3, 4)) = n
            /\ SubSeq(t, 5, 4 + DecimalValue(SubSeq(t, 3, 4))) = args.value
            /\ FieldValues(t, <<args.id>>) = {<<args.value>>}

\* C14 witness: a value shorter than ten characters was encoded, its length
\* written with a leading zero
C14_Witness ==
    /\ args.fn = "tlv"
    /\ result.ok
    /\ Len(args.value) = 9
    /\ SubSeq(result.value, 3, 4) = "09"


\* the messages of the three throw statements of the assembler and the
\* block builder
BuildErrors ==
    {"Amount must be > 0", "Invalid PAYNOW_MOBILE", "PAYNOW_UEN required for UEN mode"}

\* C15: in a returned payload field 59 is the first 25 characters of the
\* merchantName argument and subfield 01 of field 62 is the first 25
\* characters of the reference argument; a build fails for its amount or its
\* proxy only, never for the length of these two.
C15_ClipsItsArguments ==
    (args.fn = "buildPayNowPayload" /\ result # NoResult) =>
        /\ result.ok =>
              \E v \in FieldValues(result.value, TagsWithCategory) :
                  /\ v[8] = slice(args.merchantName, 0, 25)
                  /\ FieldValues(v[10], <<"01">>) = {<<slice(args.reference, 0, 25)>>}
        /\ ~result.ok => result.error \in BuildErrors


\* the decimal digits of s from position i on, in order
RECURSIVE DigitsFrom(_, _)
DigitsFrom(s, i) ==
    IF i > Len(s) THEN ""
    ELSE IF IndexIn(SubSeq(s, i, i), Digits) > 0
         THEN SubSeq(s, i, i) \o DigitsFrom(s, i + 1)
         ELSE DigitsFrom(s, i + 1)

\* the prefix an accepted shape of d digits carries, "none" for no shape
ShapePrefix(d) ==
    CASE Len(d) = 8 -> ""
      [] Len(d) = 10 /\ SubSeq(d, 1, 2) = "65" -> "65"
      [] Len(d) = 11 /\ SubSeq(d, 1, 3) = "065" -> "065"
      [] Len(d) = 12 /\ SubSeq(d, 1, 4) = "0065" -> "0065"
      [] OTHER -> "none"

\* the last eight characters of d
Last8(d) == SubSeq(d, Len(d) - 7, Len(d))

\* the calls that reach the mobile path of buildMAI_PayNow and have returned
\* or thrown
OnMobilePath ==
    /\ result # NoResult
    /\ \/ args.fn = "buildMAI_PayNow"
       \/ args.fn = "buildPayNowPayload" /\ isPositive(args.amount)
    /\ args.mode = "mobile"

\* the values block 26 of the result can be read as
Block26Values ==
    IF args.fn = "buildMAI_PayNow"
    THEN {v[1] : v \in FieldValues(result.value, <<"26">>)}
    ELSE {v[3] : v \in FieldValues(result.value, TagsWithCategory)}

\* the rows of subfield values block 26 of the result can be read as
MaiValues ==
    UNION {FieldValues(b, MaiTags) \cup FieldValues(b, MaiTagsWithExpiry) :
             b \in Block26Values}

\* C16: on the mobile path the digits of the raw mobile are accepted in four
\* shapes only (8 digits; 10 from 65; 11 from 065; 12 from 0065); the build
\* succeeds exactly when a shape matches and the eight digits left after the
\* prefix start with 8 or 9, and then subfield 02 of block 26 is those eight
\* digits; otherwise it fails with 'Invalid PAYNOW_MOBILE'. "91234567",
\* "6591234567", "06591234567", "006591234567" give "91234567"; "12345678"
\* fails.
C16_MobileNormalization ==
    OnMobilePath =>
        LET d      == DigitsFrom(args.mobile, 1)
            accept == /\ ShapePrefix(d) # "none"
                      /\ SubSeq(Last8(d), 1, 1) \in {"8", "9"}
        IN  /\ result.ok <=> accept
            /\ result.ok =>
                  /\ MaiValues # {}
                  /\ \A m \in MaiValues :
                        /\ m[2] = "0"
                        /\ m[3] = Last8(d)
                        /\ ShapePrefix(d) \o m[3] = d
                        /\ Len(m[3]) = 8 /\ AllDigits(m[3])
                        /\ SubSeq(m[3], 1, 1) \in {"8", "9"}
            /\ ~result.ok => result.error = "Invalid PAYNOW_MOBILE"
            /\ args.mobile \in {"91234567", "6591234567", "06591234567", "006591234567"}
                  => result.ok /\ \A m \in MaiValues : m[3] = "91234567"
            /\ args.mobile = "12345678" => ~result.ok

\* C16 witness: a mobile typed with punctuation and the country code was
\* reduced to its eight local digits
C16_Witness ==
    /\ OnMobilePath
    /\ args.mobile = "+65 8123 4567"
    /\ result.ok
    /\ \E m \in MaiValues : m[3] = "81234567"


\* an amount that is not greater than 0: zero, negative, or not a number
\* (which a missing amount converts to)
NotPositive(amount) == amount.nan \/ (amount.e21 = 0 /\ amount.cents <= 0)

\* the proxy of the call is one the block builder rejects
ProxyRejected ==
    \/ args.mode = "mobile" /\ (ShapePrefix(DigitsFrom(args.mobile, 1)) = "none"
                                \/ SubSeq(Last8(DigitsFrom(args.mobile, 1)), 1, 1) \notin {"8", "9"})
    \/ args.mode # "mobile" /\ args.uen = ""

\* C17: for every amount that is not greater than 0 buildPayNowPayload throws
\* 'Amount must be > 0' and returns no payload, whatever the proxy is, so
\* also when the proxy is invalid; with an amount greater than 0 it never
\* throws that error.
C17_InvalidAmountFirst ==
    (args.fn = "buildPayNowPayload" /\ result # NoResult) =>
        /\ NotPositive(args.amount) =>
              (~result.ok /\ result.value = "" /\ result.error = "Amount must be > 0")
        /\ ~NotPositive(args.amount) => result.error # "Amount must be > 0"

\* C17 witness: a negative amount together with a mobile the builder rejects
\* was refused for its amount
C17_Witness ==
    /\ args.fn = "buildPayNowPayload"
    /\ args.amount.cents < 0
    /\ ProxyRejected
    /\ result.error = "Amount must be > 0"


\* the calls that reach the UEN path of buildMAI_PayNow and have returned or
\* thrown
OnUenPath ==
    /\ result # NoResult
    /\ \/ args.fn = "buildMAI_PayNow"
       \/ args.fn = "buildPayNowPayload" /\ isPositive(args.amount)
    /\ args.mode # "mobile"

\* C18: on the UEN path the build throws 'PAYNOW_UEN required for UEN mode'
\* when the UEN is empty; otherwise it succeeds with subfield 01 = "2" and
\* subfield 02 = the UEN, character for character.
C18_UenPath ==
    OnUenPath =>
        /\ result.ok <=> args.uen # ""
        /\ ~result.ok => result.error = "PAYNOW_UEN required for UEN mode"
        /\ result.ok =>
              /\ MaiValues # {}
              /\ \A m \in MaiValues : m[2] = "2" /\ m[3] = args.uen

\* C18 witness: a UEN was placed in subfield 02 behind proxy type 2
C18_Witness ==
    /\ OnUenPath
    /\ args.uen = "T08GB0001A"
    /\ result.ok
    /\ \E m \in MaiValues : m[2] = "2" /\ m[3] = "T08GB0001A"

\* C19: a block the builder returns is one field under tag 26 whose length
\* prefix is the length of its value, and the value is, in this order and
\* with nothing else, subfield 00 = "SG.PAYNOW", 01 = "0" on the mobile path
\* and "2" on the UEN path, 02 = the local mobile number or the UEN, 03 = "1"
\* if editable else "0", and 04 = the expiry exactly when one is given.
C19_MaiBlock ==
    ((OnMobilePath \/ OnUenPath) /\ result.ok) =>
        /\ Block26Values # {}
        /\ args.fn = "buildMAI_PayNow" =>
              \A b \in Block26Values :
                  /\ SubSeq(result.value, 1, 2) = "26"
                  /\ DecimalValue(SubSeq(result.value, 3, Len(result.value) - Len(b))) = Len(b)
                  /\ SubSeq(result.value, Len(result.value) - Len(b) + 1, Len(result.value)) = b
        /\ MaiValues # {}
        /\ \A m \in MaiValues :
              /\ m[1] = "SG.PAYNOW"
              /\ m[2] = (IF args.mode = "mobile" THEN "0" ELSE "2")
              /\ m[3] = (IF args.mode = "mobile" THEN Last8(DigitsFrom(args.mobile, 1))
                         ELSE args.uen)
              /\ m[4] = (IF args.editable THEN "1" ELSE "0")
              /\ Len(m) = (IF args.expiry # "" THEN 5 ELSE 4)
              /\ Len(m) = 5 => m[5] = args.expiry

\* C19 witness: an editable block with an expiry was built on the mobile path
C19_Witness ==
    /\ args.fn = "buildMAI_PayNow"
    /\ result.ok
    /\ args.mode = "mobile" /\ args.editable /\ args.expiry # ""
    /\ result.value = "2653" \o "0009SG.PAYNOW" \o "01010" \o "020891234567" \o "03011"
                          \o "041420261231235959"

-----------------------------------------------------------------------------
(* Claims about the handlers *)

\* the handlers that hold an id they allocated and have not returned yet
Allocated == {t \in tasks : t.txnId # ""}

\* C2: when sale handlers of several users interleave at their awaits no
\* increment is lost: after n <= 999 allocations for one company inside one
\* reset window the stored counter of the company is n and the counters
\* returned are exactly 1..n, in that order.
C2_NoLostIncrement ==
    \A key \in DOMAIN returned :
        LET n == Len(returned[key])
        IN  n <= WrapAt =>
               /\ key \in DOMAIN counters
               /\ counters[key] = n
               /\ \A i \in 1..n : idCounter(returned[key][i]) = i

\* C2 witness: two handlers of different users are both suspended after
\* allocating for the same company, and that company's counter is 2
C2_Witness ==
    \E t1, t2 \in Allocated :
        /\ t1.uid # t2.uid
        /\ t1.companyName = t2.companyName
        /\ t1.txnId # t2.txnId
        /\ counters[counterKey(t1.companyName)] = 2
        /\ Len(returned[counterKey(t1.companyName)]) = 2

-----------------------------------------------------------------------------
(* Claims about the assembler called while sales go on *)

-----------------------------------------------------------------------------
(* Claims about the amount a QR sale charges *)

\* text is digits, a point and two digits
TwoDecimalShape(text) ==
    /\ Len(text) >= 4
    /\ SubSeq(text, Len(text) - 2, Len(text) - 2) = "."
    /\ AllDigits(SubSeq(text, 1, Len(text) - 3))
    /\ AllDigits(SubSeq(text, Len(text) - 1, Len(text)))

\* the whole dollars a session amount stands for, 100 when it is null or low
BaseDollars(amount) == IF amount.cents >= 10000 THEN amount.cents \div 100 ELSE 100

\* C21: in the QR sale the payload's field 54 is the charged amount, base
\* times 1.03, written with exactly two decimal digits behind a length prefix
\* equal to its character count; for base 100 the field is "5406103.00".
C21_SurchargedAmountField ==
    (args.fn = "sale_generate_qr" /\ result # NoResult) =>
        /\ result.ok
        /\ \E v \in FieldValues(result.value, TagsWithCategory) :
              /\ TwoDecimalShape(v[6])
              /\ args.amount.e21 = 0 =>
                    /\ DecimalValue(SubSeq(v[6], 1, Len(v[6]) - 3)) * 100
                           + DecimalValue(SubSeq(v[6], Len(v[6]) - 1, Len(v[6])))
                         = BaseDollars(args.amount) * 103
                    /\ SubSeq(v[6], 1, 1) # "0"
              /\ args.amount = Dollars(100) => v[6] = "103.00"

-----------------------------------------------------------------------------
(* Claims about a sale session and its inactivity timer *)

\* C22: the expiry callback removes a sale session only when the timer it
\* runs for was armed for that same session: whenever the callback deletes
\* stepState[uid], the session stored there is the one the timer belonged to
C22_ExpiryOnlyOwnSession ==
    [][\A t \in tasks :
          (t.handler = "expiry" /\ t \notin tasks' /\ stepState[t.uid] # NoSession)
          => stepState[t.uid] = t.s]_vars

\* C28: once a handler has ended a sale session (QR generated, cash
\* collected or Cancel), no timer armed for that session is pending and its
\* timeout callback is not running
C28_NoTimerAfterEnd ==
    \A sid \in DOMAIN sessions :
        sessions[sid].ended =>
            /\ ~sessions[sid].expiryTimer
            /\ ~\E t \in tasks : t.handler = "expiry" /\ t.s = sid

\* C29: every sale session stored in stepState is eventually removed from it
C29_SessionEventuallyEnds ==
    \A u \in Users : \A sid \in 1..MaxUpdates :
        (stepState[u] = sid /\ sessions[sid].mode = "sale") ~> (stepState[u] # sid)

\* a session that nothing touched after /sale has been removed by its timer
C29_Witness ==
    \E sid \in DOMAIN sessions :
        /\ sessions[sid].mode = "sale" /\ ~sessions[sid].ended
        /\ ~sessions[sid].expiryTimer
        /\ stepState[sessions[sid].uid] = NoSession
        /\ tasks = {}
        /\ Len(sessions) = 1

-----------------------------------------------------------------------------
(* Claims about the finalising handlers, checked under Spec, where every    *)
(* operator has one sale session                                            *)

RecordsOf(u) == {i \in 1..Len(sales) : sales[i].operatorId = u}

RecordsWith(id) == {i \in 1..Len(sales) : sales[i].transactionId = id}

\* C25: one sale session produces at most one sale: the handlers that have
\* allocated an id for it and the records appended for it are at most one
\* together
C25_OneSalePerSession ==
    \A u \in Users :
        Cardinality(RecordsOf(u))
          + Cardinality({t \in Allocated : t.uid = u /\ t.pc = "saveDB"}) <= 1

\* C27: every transaction id the sale workflows allocated is in exactly one
\* record of DB.sales once the handlers have run to their end, within one
\* reset window
C27_EveryIdRecorded ==
    (tasks = {} /\ ticks = 0) =>
        \A id \in DOMAIN issued : Cardinality(RecordsWith(id)) = 1

-----------------------------------------------------------------------------
(* Claims about Generate QR step by step *)

QrTasks == {t \in tasks : t.handler = "sale_generate_qr"}

\* C26: when generatePayNowQR fails (the payload cannot be built or the QR
\* cannot be rendered) the handler goes to its failure reply and not to
\* replyWithPhoto, appends no record, and leaves stepState and the session
\* with its fields as they were; a handler at its failure reply has no record
\* under its transaction id
C26_AllOrNothing ==
    /\ [][\A t \in QrTasks :
             (t.pc = "saveDB" /\ t \notin tasks' /\ ~result'.ok)
             => /\ [t EXCEPT !.pc = "failReply"] \in tasks'
                /\ sales' = sales
                /\ stepState' = stepState
                /\ sessions' = sessions]_vars
    /\ [](\A t \in QrTasks :
             t.pc = "failReply" => RecordsWith(t.txnId) = {})

\* PAYNOW_UEN is unset, the payload could not be built, and the handler waits
\* for its failure reply with the session still stored and filled in
C26_Witness ==
    /\ result = Throw("PAYNOW_UEN required for UEN mode")
    /\ \E t \in QrTasks : t.pc = "failReply" /\ stepState[t.uid] = t.s
    /\ sessions[1].name = "T5" /\ sessions[1].payment = "QR Code" /\ sessions[1].amount = 200
    /\ sales = <<>>

-----------------------------------------------------------------------------
(* Claims about /report and /history *)

\* C23: a session in mode 'report' is stored only for a user of ADMIN_IDS,
\* and a report for the admin chat is sent only by the handler of an update
\* from a user of ADMIN_IDS
C23_ReportsAdminOnly ==
    /\ \A u \in Users : InReport(u) => u \in ADMIN_IDS
    /\ \A sid \in DOMAIN sessions : sessions[sid].mode = "report" => sessions[sid].uid \in ADMIN_IDS
    /\ result.fn = "report" => result.by \in ADMIN_IDS

\* the admin has sent a report with rows while the other operator, who is not
\* an admin, has no report session
C23_Witness ==
    /\ result.fn = "report" /\ result.by = "u1" /\ Len(result.rows) >= 2
    /\ started >= 2
    /\ ~InReport("u2")

\* the record of DB.sales a listed row or entry stands for
SaleWith(id) == sales[CHOOSE i \in 1..Len(sales) : sales[i].transactionId = id]

FromWorkflow(s) == "amountBase" \in DOMAIN s

RECURSIVE SumOfBase(_)
SumOfBase(ids) ==
    IF ids = <<>> THEN 0
    ELSE SumOfBase(SubSeq(ids, 1, Len(ids) - 1)) + SaleWith(ids[Len(ids)]).amountBase

-----------------------------------------------------------------------------
(* Claims about the first run *)

CompanyLetters == {"L", "W", "I", "1"}

Registered(u) == users[u].nickname # "" /\ users[u].company \in KnownKeys

\* C30: a session of mode 'sale' is stored only for a user with a nickname
\* and one of the four companies, and every record of DB.sales (and every
\* id a handler holds) carries such an operator, one of the four companies
\* and an id that starts with L, W, I or 1
C30_SalesOnlyWhenRegistered ==
    /\ \A u \in DOMAIN stepState : InSale(u) => Registered(u)
    /\ \A t \in Allocated :
          /\ t.companyName \in KnownKeys
          /\ charAt(t.txnId, 0) \in CompanyLetters
    /\ \A i \in 1..Len(sales) :
          /\ sales[i].operator \notin {"", "Unknown"}
          /\ sales[i].company \in KnownKeys
          /\ charAt(sales[i].transactionId, 0) \in CompanyLetters
          /\ charAt(sales[i].transactionId, 0) = PrefixExact(sales[i].company)

\* a registered operator of company 101 has recorded a sale, and it carries
\* the id 1001
C30_Witness ==
    /\ Len(sales) = 1
    /\ sales[1].transactionId = "1001" /\ sales[1].company = "101"
    /\ users[sales[1].operatorId].company = "101"

-----------------------------------------------------------------------------
(* The frame of an allocation, checked under SpecAlloc *)

\* the counter of bucket k in the counters c, 0 for a bucket not made yet
CountOf(c, k) == IF k \in DOMAIN c THEN c[k] ELSE 0

\* C34: a call of nextTxnId(company) that finds the stored reset key current
\* leaves the key as it was, moves exactly one counter by one step (v + 1, or
\* 1 after 999), and leaves every other counter as it was; the counter moved
\* is the company's whatever the letter case of the name, so a company that
\* has a counter under another capitalisation gets no second one.
C34_AllocationFrame ==
    (lastCall.n > 0 /\ ~lastCall.reset) =>
        LET before == lastCall.before
            lower  == toLowerCase(lastCall.company)
        IN  /\ counters["date"] = before["date"]
            /\ \E k \in CounterKeys :
                /\ toLowerCase(k) = lower
                /\ \A j \in DOMAIN before \ {"date"} : toLowerCase(j) = lower => j = k
                /\ counters[k] = IF CountOf(before, k) = 999 THEN 1
                                 ELSE CountOf(before, k) + 1
                /\ CounterKeys \ {k} = DOMAIN before \ {k, "date"}
                /\ \A j \in CounterKeys \ {k} : counters[j] = before[j]

\* "lunar" allocated after "Lunar" under one reset key, with the counter of
\* another company standing at a value of its own
C34_Witness ==
    /\ lastCall.n = 2 /\ ~lastCall.reset
    /\ lastCall.company = "lunar"
    /\ lastCall.before["Lunar"] = 1
    /\ counters["Lunar"] = 2
    /\ DOMAIN counters = DOMAIN lastCall.before

-----------------------------------------------------------------------------
(* The order of the steps of a QR sale, checked under SpecGenerate *)

\* the QR handlers that have not had their photo posted: waiting for the
\* first saveDB, for replyWithPhoto, or for the reply of the catch
Unposted == {t \in QrTasks : t.pc \in {"saveDB", "photo", "failReply"}}

\* C33: a QR handler takes its steps in this order. The step that allocates
\* the id starts the handler at its first saveDB and touches neither DB.sales
\* nor the session; the payload is built only by a handler whose first saveDB
\* settled, and building it appends nothing; a record is appended only by a
\* handler whose replyWithPhoto settled, under that handler's id and
\* reference; stepState is deleted only by a handler whose record is in
\* DB.sales. No record exists under the id of a handler whose photo was not
\* posted.
C33_StepOrder ==
    /\ [][/\ counters' # counters =>
                /\ \E t \in QrTasks' \ tasks :
                      /\ t.pc = "saveDB"
                      /\ t.txnId = lastCall'.id
                      /\ RecordsWith(t.txnId) = {}
                /\ sales' = sales /\ stepState' = stepState /\ result' = result
          /\ result' # result =>
                /\ \E t \in QrTasks :
                      /\ t.pc = "saveDB"
                      /\ [t EXCEPT !.pc = IF result'.ok THEN "photo" ELSE "failReply"] \in tasks'
                /\ sales' = sales /\ stepState' = stepState
          /\ sales' # sales =>
                /\ \E t \in QrTasks :
                      /\ t.pc = "photo"
                      /\ [t EXCEPT !.pc = "saveDB2"] \in tasks'
                      /\ Len(sales') = Len(sales) + 1
                      /\ SubSeq(sales', 1, Len(sales)) = sales
                      /\ sales'[Len(sales')].transactionId = t.txnId
                      /\ sales'[Len(sales')].reference = t.ref
                      /\ sales'[Len(sales')].payment = "QR Code"
                /\ stepState' = stepState
          /\ stepState' # stepState =>
                /\ \E t \in QrTasks :
                      /\ t.pc = "tryDelete"
                      /\ t \notin tasks'
                      /\ RecordsWith(t.txnId) # {}
                /\ sales' = sales]_vars
    /\ [](\A t \in Unposted : RecordsWith(t.txnId) = {})

\* a QR sale run to its end: L001 allocated, the payload built, the record
\* appended and the session removed, while a second handler of the same
\* session, whose QR could not be rendered, waits for its failure reply
C33_Witness ==
    /\ Len(sales) = 1 /\ sales[1].transactionId = "L001"
    /\ stepState["u1"] = NoSession /\ sessions[1].ended
    /\ \E t \in QrTasks : t.pc = "failReply" /\ t.txnId = "L002"
    /\ result = RenderError

-----------------------------------------------------------------------------
(* Claims about editing a sale, checked under SpecEdit *)

\* C31 as stated: whenever the Generate QR handler allocates an id, the
\* session it read satisfies canGenerateQR (name set, payment 'QR Code',
\* amount set and at least MIN_AMOUNT), in whatever order the edit, clear and
\* generate callbacks arrived.
C31_OnlyCompleteSale ==
    [][\A t \in QrTasks' \ tasks :
          t.txnId # "" => canGenerateQR(sessions[t.s])]_vars

=========================================================================
